---- MODULE Spec2Model ----
(***************************************************************************)
(* Write path of the normalized cache: StoreWriter.writeToStore,           *)
(* processSelectionSet, processFieldValue, the data-loss guard and the     *)
(* eviction scheduling callbacks (src/unnamed/part_000).                    *)
(***************************************************************************)
EXTENDS Integers, Sequences, FiniteSets, TLC

VARIABLES
    cfg,        \* policies / environment the cache was constructed with
    family,     \* which family of write requests this run draws from
    store,      \* the NormalizedCache the writes are given: identifier -> record
    rootIds,    \* store.retain counts: identifier -> number of retain calls
    jobs,       \* scheduler queue: pending jobs, in insertion order
    ops,        \* scheduler promises in flight (getJobs / addJob / update)
    nextJob,    \* next job identifier handed out by the scheduler
    executedJobs, \* jobs executed since the queue last reported it finished
    now,        \* wall clock, in milliseconds
    warnings,   \* module-level Set of "Type.field" strings already warned
    writes,     \* number of writeToStore calls made so far
    scheduled,  \* every eviction scheduling so far: <<dataId, maxAge>>, in order
    last,       \* record of the most recent writeToStore call
    walk        \* one writeToStore call taken step by step: its call stack

vars == <<cfg, family, store, rootIds, jobs, ops, nextJob, executedJobs, now,
          warnings, writes, scheduled, last, walk>>

----------------------------------------------------------------------------
(* Bounds *)

MaxWrites == 2
MaxTicks == 2

(* Program constant: fallback delay of line 328. *)
FallbackDelay == 30000

T1 == FallbackDelay
T2 == 2 * FallbackDelay

----------------------------------------------------------------------------
(* Store values.  Every value carries its JavaScript shape in field k. *)

Undefined == [k |-> "undef"]
Null == [k |-> "null"]
Str(s) == [k |-> "str", s |-> s]
Num(n) == [k |-> "num", n |-> n]
Obj(f) == [k |-> "obj", f |-> f]
List(l) == [k |-> "list", l |-> l]

NoFields == [x \in {} |-> Undefined]

\* Object.keys of an array: the property names of its positions
IndexKey == <<"0", "1", "2", "3">>

\* obj[key] on a plain field map; a missing key reads as undefined
Get(f, key) == IF key \in DOMAIN f THEN f[key] ELSE Undefined

\* storeUtils.makeReference / isReference
makeReference(id) == [k |-> "ref", ref |-> id]
isReference(v) == v.k = "ref"

\* helpers.FieldValueToBeMerged: { __field, __typename, __value }
ToBeMerged(field, typename, value) ==
    [k |-> "tbm", field |-> field, typename |-> typename, value |-> value]

\* JavaScript truthiness of a stored value (line 311: mergedFields.maxAge)
Truthy(v) ==
    CASE v.k = "undef" -> FALSE
      [] v.k = "null" -> FALSE
      [] v.k = "num" -> v.n # 0
      [] v.k = "str" -> v.s # ""
      [] OTHER -> TRUE

\* new Date(Number(x)).toISOString(): an ISO-8601 string; it is kept as the
\* tagged millisecond count it denotes, distinct from a number
ToISOString(ms) == [iso |-> ms]
\* the scheduler's reading of a job's executionTime string
ParseISO(t) == t.iso

----------------------------------------------------------------------------
(* context.merge: the processed-fields deep merge (makeProcessedFieldsMerger) *)

RECURSIVE MergeValue(_, _)
MergeFieldMaps(existing, incoming) ==
    [key \in DOMAIN existing \cup DOMAIN incoming |->
        IF key \notin DOMAIN incoming THEN existing[key]
        ELSE IF key \notin DOMAIN existing THEN incoming[key]
        ELSE MergeValue(existing[key], incoming[key])]

MergeValue(existing, incoming) ==
    IF existing.k = "tbm" \/ incoming.k = "tbm"
    THEN LET e == IF existing.k = "tbm" THEN existing.value ELSE existing
             i == IF incoming.k = "tbm" THEN incoming.value ELSE incoming
             m == IF incoming.k = "tbm" THEN incoming ELSE existing
         IN ToBeMerged(m.field, m.typename, MergeValue(e, i))
    ELSE IF existing.k = "obj" /\ incoming.k = "obj"
    THEN Obj(MergeFieldMaps(existing.f, incoming.f))
    ELSE incoming

----------------------------------------------------------------------------
(* store.merge(dataId, incoming): deep merge of a record into the store.   *)

RECURSIVE DeepMergeValue(_, _)
DeepMergeFieldMaps(existing, incoming) ==
    [key \in DOMAIN existing \cup DOMAIN incoming |->
        IF key \notin DOMAIN incoming THEN existing[key]
        ELSE IF key \notin DOMAIN existing THEN incoming[key]
        ELSE DeepMergeValue(existing[key], incoming[key])]

DeepMergeValue(existing, incoming) ==
    IF existing.k = "obj" /\ incoming.k = "obj"
    THEN Obj(DeepMergeFieldMaps(existing.f, incoming.f))
    ELSE incoming

\* store.get(dataId, fieldName) / the whole record of dataId
StoreRecord(s, dataId) == IF dataId \in DOMAIN s THEN s[dataId] ELSE NoFields
StoreGet(s, dataId, fieldName) == Get(StoreRecord(s, dataId), fieldName)

StoreMerge(s, dataId, incoming) ==
    [id \in DOMAIN s \cup {dataId} |->
        IF id = dataId
        THEN DeepMergeFieldMaps(StoreRecord(s, dataId), incoming)
        ELSE s[id]]

\* store.getFieldValue(objOrRef, storeFieldName)
getFieldValue(s, objOrRef, storeFieldName) ==
    IF objOrRef.k = "ref" THEN StoreGet(s, objOrRef.ref, storeFieldName)
    ELSE IF objOrRef.k = "obj" THEN Get(objOrRef.f, storeFieldName)
    ELSE IF objOrRef.k = "list"
         THEN IF \E n \in 1..Len(objOrRef.l) : IndexKey[n] = storeFieldName
              THEN objOrRef.l[CHOOSE n \in 1..Len(objOrRef.l) :
                                  IndexKey[n] = storeFieldName]
              ELSE Undefined
    ELSE Undefined

----------------------------------------------------------------------------
(* Query documents.  Selection sets and selection nodes are AST objects    *)
(* compared by identity, so each has a name of its own.                    *)

NoId == ""

Field(name, sub) ==
    [kind |-> "field", name |-> name, key |-> name, store |-> name,
     sub |-> sub, dirs |-> {}, skipVar |-> "", cond |-> ""]
FieldArgs(name, storeName, sub) == [Field(name, sub) EXCEPT !.store = storeName]
FieldDir(name, dir) == [Field(name, "") EXCEPT !.dirs = {dir}]
FieldSkip(name, var) ==
    [Field(name, "") EXCEPT !.dirs = {"skip"}, !.skipVar = var]
Spread(fragmentName) ==
    [kind |-> "spread", name |-> fragmentName, key |-> "", store |-> "",
     sub |-> "", dirs |-> {}, skipVar |-> "", cond |-> ""]
Inline(typeCondition, sub) ==
    [kind |-> "inline", name |-> "", key |-> "", store |-> "",
     sub |-> sub, dirs |-> {}, skipVar |-> "", cond |-> typeCondition]

\* selectionSet.selections, per selection-set object
Selections ==
    [ Q1  |-> <<"Q1.id", "Q1.text">>,
      Q1m |-> <<"Q1m.id", "Q1m.text", "Q1m.maxAge">>,
      K1  |-> <<"K1.text">>,
      X1  |-> <<"X1.id", "X1.text", "X1.missing">>,
      N0  |-> <<"N0.todo">>,
      N1  |-> <<"N1.id", "N1.text", "N1.maxAge", "N1.owner", "N1.tags">>,
      N2  |-> <<"N2.name", "N2.age">>,
      L0  |-> <<"L0.todos">>,
      L1  |-> <<"L1.id", "L1.text">>,
      L2  |-> <<"L2.todos">>,
      L3  |-> <<"L3.typename", "L3.id", "L3.text">>,
      F0  |-> <<"F0.todo">>,
      F1  |-> <<"F1.spreadF", "F1.spreadF2", "F1.spreadG", "F1.onOther">>,
      F2  |-> <<"F2.id", "F2.text">>,
      F3  |-> <<"F3.text", "F3.maxAge">>,
      F4  |-> <<"F4.missing">>,
      M0  |-> <<"M0.todo">>,
      M1  |-> <<"M1.id", "M1.text", "M1.local", "M1.extra">>,
      P0  |-> <<"P0.holder">>,
      P1  |-> <<"P1.id", "P1.first", "P1.items">>,
      P2  |-> <<"P2.text", "P2.tags">>,
      C0  |-> <<"C0.todo">>,
      C1  |-> <<"C1.spreadT">>,
      C2  |-> <<"C2.id", "C2.friend", "C2.late">>,
      C3  |-> <<"C3.spreadT">>,
      W0  |-> <<"W0.todo">>,
      W1  |-> <<"W1.spreadV">>,
      W2  |-> <<"W2.id", "W2.friend", "W2.friends", "W2.extra", "W2.spreadX">>,
      W3  |-> <<"W3.spreadV">>,
      W4  |-> <<"W4.id", "W4.spreadV">> ]

\* the selection nodes (FieldNode, FragmentSpreadNode, InlineFragmentNode)
Node(n) ==
    CASE n = "Q1.id" -> Field("id", "")
      [] n = "Q1.text" -> Field("text", "")
      [] n = "Q1m.id" -> Field("id", "")
      [] n = "Q1m.text" -> Field("text", "")
      [] n = "Q1m.maxAge" -> Field("maxAge", "")
      [] n = "K1.text" -> Field("text", "")
      [] n = "X1.id" -> Field("id", "")
      [] n = "X1.text" -> Field("text", "")
      [] n = "X1.missing" -> Field("missing", "")
      [] n = "N0.todo" -> Field("todo", "N1")
      [] n = "N1.id" -> Field("id", "")
      [] n = "N1.text" -> Field("text", "")
      [] n = "N1.maxAge" -> Field("maxAge", "")
      [] n = "N1.owner" -> Field("owner", "N2")
      [] n = "N1.tags" -> Field("tags", "")
      [] n = "N2.name" -> Field("name", "")
      [] n = "N2.age" -> Field("age", "")
      [] n = "L0.todos" -> FieldArgs("todos", "todos(all)", "L1")
      [] n = "L1.id" -> Field("id", "")
      [] n = "L1.text" -> Field("text", "")
      [] n = "L2.todos" -> FieldArgs("todos", "todos(all)", "L3")
      [] n = "L3.typename" -> Field("__typename", "")
      [] n = "L3.id" -> Field("id", "")
      [] n = "L3.text" -> Field("text", "")
      [] n = "F0.todo" -> Field("todo", "F1")
      [] n = "F1.spreadF" -> Spread("F")
      [] n = "F1.spreadF2" -> Spread("F")
      [] n = "F1.spreadG" -> Spread("G")
      [] n = "F1.onOther" -> Inline("Other", "F4")
      [] n = "F2.id" -> Field("id", "")
      [] n = "F2.text" -> Field("text", "")
      [] n = "F3.text" -> Field("text", "")
      [] n = "F3.maxAge" -> Field("maxAge", "")
      [] n = "F4.missing" -> Field("missing", "")
      [] n = "M0.todo" -> Field("todo", "M1")
      [] n = "M1.id" -> Field("id", "")
      [] n = "M1.text" -> Field("text", "")
      [] n = "M1.local" -> FieldDir("local", "client")
      [] n = "M1.extra" -> FieldSkip("extra", "hide")
      [] n = "P0.holder" -> Field("holder", "P1")
      [] n = "P1.id" -> Field("id", "")
      [] n = "P1.first" -> Field("first", "P2")
      [] n = "P1.items" -> Field("items", "P2")
      [] n = "P2.text" -> Field("text", "")
      [] n = "P2.tags" -> Field("tags", "")
      [] n = "C0.todo" -> Field("todo", "C1")
      [] n = "C1.spreadT" -> Spread("T")
      [] n = "C2.id" -> Field("id", "")
      [] n = "C2.friend" -> Field("friend", "C3")
      [] n = "C2.late" -> Field("late", "")
      [] n = "C3.spreadT" -> Spread("T")
      [] n = "W0.todo" -> Field("todo", "W1")
      [] n = "W1.spreadV" -> Spread("V")
      [] n = "W2.id" -> Field("id", "")
      [] n = "W2.friend" -> Field("friend", "W3")
      [] n = "W2.friends" -> Field("friends", "W3")
      [] n = "W2.extra" -> FieldSkip("extra", "hide")
      [] n = "W2.spreadX" -> Spread("X")
      [] n = "W3.spreadV" -> Spread("V")
      [] n = "W4.id" -> Field("id", "")
      [] n = "W4.spreadV" -> Spread("V")

\* createFragmentMap(getFragmentDefinitions(query)): name -> definition.
\* T selects friend with a selection set that spreads T again; so does V,
\* and V and X spread each other
FragmentMap ==
    [ F |-> [cond |-> "Todo", sub |-> "F2"],
      G |-> [cond |-> "Todo", sub |-> "F3"],
      T |-> [cond |-> "Todo", sub |-> "C2"],
      V |-> [cond |-> "Todo", sub |-> "W2"],
      X |-> [cond |-> "Todo", sub |-> "W4"] ]

\* getDefaultValues(operationDefinition), per query (by its root selection set)
DefaultValues(query) ==
    IF query = "M0" THEN [hide |-> FALSE] ELSE [x \in {} |-> FALSE]

----------------------------------------------------------------------------
(* Utilities of utilities/graphql and the policies object *)

\* directives.shouldInclude(selection, variables)
shouldInclude(node, variables) ==
    IF "skip" \in node.dirs THEN ~variables[node.skipVar] ELSE TRUE

\* directives.hasDirectives(names, selection)
hasDirectives(names, node) == node.dirs \cap names # {}

\* fragments.getFragmentFromSelection(selection, fragmentMap)
getFragmentFromSelection(node) ==
    IF node.kind = "inline" THEN [cond |-> node.cond, sub |-> node.sub]
    ELSE FragmentMap[node.name]

\* helpers.fieldNameFromStoreName: the field name before any arguments
fieldNameFromStoreName(storeFieldName) ==
    IF storeFieldName = "todos(all)" THEN "todos" ELSE storeFieldName

\* policies.rootTypenamesById
rootTypenamesById(dataId) == IF dataId = "ROOT_QUERY" THEN "Query" ELSE ""

\* storeUtils.getTypenameFromResult: the result's own __typename, if a string
getTypenameFromResult(result) ==
    IF result.k = "obj" /\ Get(result.f, "__typename").k = "str"
    THEN result.f["__typename"].s ELSE ""

\* policies.identify(result, selectionSet, fragmentMap): [id, keyObject]
identify(result) ==
    LET typename == getTypenameFromResult(result)
        id == IF result.k = "obj" THEN Get(result.f, "id") ELSE Undefined
    IN IF typename # "" /\ id.k = "str"
       THEN [id |-> typename \o ":" \o id.s, keyObject |-> [id |-> id]]
       ELSE [id |-> NoId, keyObject |-> NoFields]

\* policies.fragmentMatches(fragment, typename)
fragmentMatches(fragment, typename) ==
    \/ fragment.cond = ""
    \/ typename # "" /\ fragment.cond = typename

\* policies.hasMergeFunction(typename, fieldName): the type policies give
\* Todo.tags a custom merge function
hasMergeFunction(typename, fieldName) == typename = "Todo" /\ fieldName = "tags"

\* the merge function of Todo.tags: keeps the incoming list only
customMerge(typename, fieldName, existing, incoming) == incoming

----------------------------------------------------------------------------
(* policies.applyMerges: every FieldValueToBeMerged of the accumulator is  *)
(* replaced by what its custom merge function returns.                     *)

RECURSIVE applyMergesValue(_, _, _)
applyMergesValue(s, existing, incoming) ==
    CASE incoming.k = "tbm" ->
            customMerge(incoming.typename, Node(incoming.field).name, existing,
                        applyMergesValue(s, Undefined, incoming.value))
      [] incoming.k = "list" ->
            List([i \in 1..Len(incoming.l) |->
                    applyMergesValue(s, Undefined, incoming.l[i])])
      [] incoming.k = "obj" ->
            Obj([key \in DOMAIN incoming.f |->
                    applyMergesValue(s, getFieldValue(s, existing, key),
                                     incoming.f[key])])
      [] OTHER -> incoming

applyMerges(s, entityRef, mergedFields) ==
    [key \in DOMAIN mergedFields |->
        applyMergesValue(s, getFieldValue(s, entityRef, key), mergedFields[key])]

----------------------------------------------------------------------------
(* The data-loss guard (lines 373-449) *)

\* typeof child === "object" && child
IsObjectLike(v) == v.k \in {"obj", "list", "ref", "tbm"}

\* Object.keys(existing)
KeysOf(v) ==
    CASE v.k = "obj" -> DOMAIN v.f
      [] v.k = "list" -> {IndexKey[i] : i \in 1..Len(v.l)}
      [] OTHER -> {}

\* the guard also returns silently when the incoming value is a Reference
NoWarningNeeded_anyReference(s, existingRef, incomingObj, storeFieldName) ==
    \/ ~IsObjectLike(getFieldValue(s, existingRef, storeFieldName))
    \/ ~IsObjectLike(Get(incomingObj, storeFieldName))
    \/ isReference(getFieldValue(s, existingRef, storeFieldName))
    \/ isReference(Get(incomingObj, storeFieldName))
    \/ getFieldValue(s, existingRef, storeFieldName)
          = Get(incomingObj, storeFieldName)
    \/ \A key \in KeysOf(getFieldValue(s, existingRef, storeFieldName)) :
          getFieldValue(s, Get(incomingObj, storeFieldName), key).k # "undef"

\* the conditions of lines 384-404 under which the guard returns silently
NoWarningNeeded(s, existingRef, incomingObj, storeFieldName) ==
    LET existing == getFieldValue(s, existingRef, storeFieldName)
        incoming == Get(incomingObj, storeFieldName)
    IN \/ ~IsObjectLike(existing)
       \/ ~IsObjectLike(incoming)
       \/ isReference(existing)
       \/ existing = incoming
       \/ \A key \in KeysOf(existing) :
              getFieldValue(s, incoming, key).k # "undef"

\* `${parentType}.${fieldName}` of lines 406-410
TypeDotName(s, existingRef, incomingObj, storeFieldName) ==
    LET stored == getFieldValue(s, existingRef, "__typename")
        given == Get(incomingObj, "__typename")
        parentType == IF stored.k = "str" /\ stored.s # "" THEN stored.s
                      ELSE IF given.k = "str" THEN given.s ELSE "undefined"
    IN parentType \o "." \o fieldNameFromStoreName(storeFieldName)

\* the set of names already warned about is not consulted
alreadyWarned_never(w, typeDotName) == FALSE

\* line 411: warnings.has(typeDotName)
alreadyWarned(w, typeDotName) == typeDotName \in w

\* lines 411-449: the names for which invariant.warn is called when the guard
\* runs over the keys of mergedFields with the warnings set w
warningsEmitted(w, s, entityRef, mergedFields, typename) ==
    { TypeDotName(s, entityRef, mergedFields, key) :
        key \in { x \in DOMAIN mergedFields :
                    /\ ~hasMergeFunction(typename, fieldNameFromStoreName(x))
                    /\ ~NoWarningNeeded(s, entityRef, mergedFields, x)
                    /\ ~alreadyWarned(w, TypeDotName(s, entityRef,
                                                     mergedFields, x)) } }

\* warnAboutDataLoss: the warnings set afterwards
warnAboutDataLoss(w, s, existingRef, incomingObj, storeFieldName) ==
    IF NoWarningNeeded(s, existingRef, incomingObj, storeFieldName) THEN w
    ELSE w \cup {TypeDotName(s, existingRef, incomingObj, storeFieldName)}

\* lines 296-310: the guard over every key of mergedFields that has no
\* custom merge function.  The keys are independent of each other: the
\* result is the union of what each key adds.
GuardAllFields(w, s, entityRef, mergedFields, typename) ==
    w \cup UNION { warnAboutDataLoss({}, s, entityRef, mergedFields, key) :
                   key \in { x \in DOMAIN mergedFields :
                       ~hasMergeFunction(typename, fieldNameFromStoreName(x)) } }

----------------------------------------------------------------------------
(* The read-side collaborator: StoreReader.isFresh *)

\* the work set keeps a selection object added a second time
SetAdd_keepDuplicates(workSet, n) == Append(workSet, n)

\* workSet.add: a Set keeps one entry per selection node, in insertion order
SetAdd(workSet, n) ==
    IF \E i \in 1..Len(workSet) : workSet[i] = n THEN workSet
    ELSE Append(workSet, n)

\* variant: the selections are appended whether the work set holds them or
\* not
AddAll_appendAll(workSet, selections) == workSet \o selections

\* fragment.selectionSet.selections.forEach(workSet.add, workSet)
RECURSIVE AddAll(_, _)
AddAll(workSet, selections) ==
    IF selections = <<>> THEN workSet
    ELSE AddAll(SetAdd(workSet, Head(selections)), Tail(selections))

Missing == [k |-> "missing"]

\* the field nodes a reread of selectionSet visits for an object of typename
RECURSIVE ReadWorkSet(_, _, _, _)
ReadWorkSet(workSet, i, typename, variables) ==
    IF i > Len(workSet) THEN workSet
    ELSE LET node == Node(workSet[i])
         IN IF node.kind # "field" /\ shouldInclude(node, variables)
               /\ fragmentMatches(getFragmentFromSelection(node), typename)
            THEN ReadWorkSet(
                    AddAll(workSet, Selections[getFragmentFromSelection(node).sub]),
                    i + 1, typename, variables)
            ELSE ReadWorkSet(workSet, i + 1, typename, variables)

\* what rereading selectionSet from objOrRef yields
RECURSIVE readSelectionSet(_, _, _, _)
readValue(s, value, sub, variables) ==
    IF value.k = "undef" THEN Missing
    ELSE IF sub = "" \/ value.k = "null" THEN value
    ELSE IF value.k = "list"
    THEN List([i \in 1..Len(value.l) |->
                 IF value.l[i].k = "null" THEN Null
                 ELSE readSelectionSet(s, value.l[i], sub, variables)])
    ELSE readSelectionSet(s, value, sub, variables)

readSelectionSet(s, objOrRef, selectionSet, variables) ==
    LET stored == getFieldValue(s, objOrRef, "__typename")
        typename == IF stored.k = "str" THEN stored.s ELSE ""
        workSet == ReadWorkSet(Selections[selectionSet], 1, typename, variables)
        fields == { i \in 1..Len(workSet) :
                      /\ Node(workSet[i]).kind = "field"
                      /\ shouldInclude(Node(workSet[i]), variables) }
    IN Obj([key \in { Node(workSet[i]).key : i \in fields } |->
              LET i == CHOOSE j \in fields : Node(workSet[j]).key = key
                  node == Node(workSet[i])
              IN readValue(s, getFieldValue(s, objOrRef, node.store),
                           node.sub, variables)])

\* variant: any stored record the caller already holds counts as fresh
isFresh_anyStored(c, s, result, ref, selectionSet) ==
    /\ c.known
    /\ ref.ref \in DOMAIN s

\* reader.isFresh(result, ref, selectionSet, context): the caller holds the
\* very object a reread with these inputs would return
isFresh(c, s, result, ref, selectionSet) ==
    /\ c.known
    /\ readSelectionSet(s, ref, selectionSet, c.variables) = result

----------------------------------------------------------------------------
(* StoreWriter.processSelectionSet / processFieldValue.                    *)
(* The state the recursion threads through one writeToStore call:          *)
(*   store    context.store                                                *)
(*   written  context.written, as pairs <<dataId, selectionSet>>           *)
(*   apply    out.shouldApplyMerges, one object shared by the whole write  *)
(*   calls    queue.getJobs() calls issued, with what their callback holds *)
(*   warnings the module-level warnings set                                *)
(*   log      what happened, in order                                      *)
(*   err      the field named by a thrown missing-field error, "" if none  *)

NoErr == ""

Logged(st, e) == [st EXCEPT !.log = Append(@, e)]

\* the job is added by the write itself, without looking the job list up
scheduleEviction_addsAtOnce(st, dataId, mergedFields) ==
    IF dataId # "ROOT_QUERY" /\ Truthy(Get(mergedFields, "maxAge"))
    THEN [Logged(st, [ev |-> "getJobs", id |-> dataId,
                      maxAge |-> mergedFields["maxAge"]])
            EXCEPT !.calls = Append(@,
                      [type |-> "addJob", id |-> dataId,
                       maxAge |-> mergedFields["maxAge"], tag |-> <<0, 0>>,
                       jid |-> 0, executionTime |-> ToISOString(0)])]
    ELSE st

\* lines 311-334, the synchronous part: queue.getJobs() is called when the
\* record is not the root query and carries a truthy maxAge
scheduleEviction(st, dataId, mergedFields) ==
    IF dataId # "ROOT_QUERY" /\ Truthy(Get(mergedFields, "maxAge"))
    THEN LET call == [type |-> "getJobs", id |-> dataId,
                      maxAge |-> mergedFields["maxAge"], tag |-> <<0, 0>>,
                      jid |-> 0, executionTime |-> ToISOString(0)]
         IN [Logged(st, [ev |-> "getJobs", id |-> dataId,
                         maxAge |-> mergedFields["maxAge"]])
               EXCEPT !.calls = Append(@, call)]
    ELSE st

\* the fields of the record that hold a Reference where the incoming record
\* holds an inline object
ThroughReference(before, mergedFields) ==
    { key \in DOMAIN before \cap DOMAIN mergedFields :
        isReference(before[key]) /\ mergedFields[key].k = "obj" }

\* an inline object written over a Reference is merged into the referenced
\* record and the Reference is kept
commitRecord_throughReference(st, own, mergedFields, path) ==
    [Logged(st, [ev |-> "merge", id |-> own.id, ss |-> own.ss, path |-> path,
                 typename |-> own.typename,
                 before |-> StoreRecord(st.store, own.id),
                 incoming |-> mergedFields,
                 after |-> [key \in DOMAIN StoreRecord(st.store, own.id)
                                    \cup DOMAIN mergedFields |->
                               IF key \in ThroughReference(
                                      StoreRecord(st.store, own.id), mergedFields)
                               THEN st.store[own.id][key]
                               ELSE StoreMerge(st.store, own.id,
                                               mergedFields)[own.id][key]]])
       EXCEPT !.store =
          [id \in DOMAIN st.store \cup {own.id} |->
              IF id = own.id
              THEN [key \in DOMAIN StoreRecord(st.store, own.id)
                            \cup DOMAIN mergedFields |->
                       IF key \in ThroughReference(
                              StoreRecord(st.store, own.id), mergedFields)
                       THEN st.store[own.id][key]
                       ELSE StoreMerge(st.store, own.id,
                                       mergedFields)[own.id][key]]
              ELSE IF \E key \in ThroughReference(
                          StoreRecord(st.store, own.id), mergedFields) :
                          st.store[own.id][key].ref = id
              THEN DeepMergeFieldMaps(
                      st.store[id],
                      mergedFields[CHOOSE key \in ThroughReference(
                                       StoreRecord(st.store, own.id),
                                       mergedFields) :
                                       st.store[own.id][key].ref = id].f)
              ELSE st.store[id]]]

\* the record is merged one level deep only: a field present on both sides
\* takes the incoming value
commitRecord_shallow(st, own, mergedFields, path) ==
    [Logged(st, [ev |-> "merge", id |-> own.id, ss |-> own.ss, path |-> path,
                 typename |-> own.typename,
                 before |-> StoreRecord(st.store, own.id),
                 incoming |-> mergedFields,
                 after |-> [key \in DOMAIN StoreRecord(st.store, own.id)
                                    \cup DOMAIN mergedFields |->
                               IF key \in DOMAIN mergedFields
                               THEN mergedFields[key]
                               ELSE st.store[own.id][key]]])
       EXCEPT !.store = [id \in DOMAIN st.store \cup {own.id} |->
                            IF id # own.id THEN st.store[id]
                            ELSE [key \in DOMAIN StoreRecord(st.store, own.id)
                                           \cup DOMAIN mergedFields |->
                                     IF key \in DOMAIN mergedFields
                                     THEN mergedFields[key]
                                     ELSE st.store[own.id][key]]]]

\* the record is overwritten instead of merged
commitRecord_overwrite(st, own, mergedFields, path) ==
    [Logged(st, [ev |-> "merge", id |-> own.id, ss |-> own.ss, path |-> path,
                 typename |-> own.typename,
                 before |-> StoreRecord(st.store, own.id),
                 incoming |-> mergedFields,
                 after |-> mergedFields])
       EXCEPT !.store = [id \in DOMAIN st.store \cup {own.id} |->
                            IF id = own.id THEN mergedFields
                            ELSE st.store[id]]]

\* variant: only the object the write was called for is committed
commitRecord_rootOnly(st, own, mergedFields, path) ==
    IF path # <<>> THEN st
    ELSE [Logged(st, [ev |-> "merge", id |-> own.id, ss |-> own.ss,
                      path |-> path, typename |-> own.typename,
                      before |-> StoreRecord(st.store, own.id),
                      incoming |-> mergedFields,
                      after |-> StoreMerge(st.store, own.id,
                                           mergedFields)[own.id]])
            EXCEPT !.store = StoreMerge(st.store, own.id, mergedFields)]

\* line 335: context.store.merge(dataId, mergedFields)
commitRecord(st, own, mergedFields, path) ==
    [Logged(st, [ev |-> "merge", id |-> own.id, ss |-> own.ss, path |-> path,
                 typename |-> own.typename,
                 before |-> StoreRecord(st.store, own.id),
                 incoming |-> mergedFields,
                 after |-> StoreMerge(st.store, own.id, mergedFields)[own.id]])
       EXCEPT !.store = StoreMerge(st.store, own.id, mergedFields)]

\* lines 292-294
mergesApplied(st, entityRef, acc) ==
    IF st.apply THEN applyMerges(st.store, entityRef, acc) ELSE acc

\* invariant.warn was called for names
warnLogged(st, entityRef, names) ==
    IF names = {} THEN st
    ELSE Logged(st, [ev |-> "warn", id |-> entityRef.ref, names |-> names])

\* lines 296-310
guarded(c, st, entityRef, mergedFields, typename) ==
    IF ~c.production
    THEN warnLogged(
            [st EXCEPT !.warnings =
                GuardAllFields(@, st.store, entityRef, mergedFields, typename)],
            entityRef,
            warningsEmitted(st.warnings, st.store, entityRef, mergedFields,
                            typename))
    ELSE st

\* lines 311-337 for the accumulator after the merge functions have run: the
\* guard, the eviction scheduling, then the commit
commitMerged(c, st, own, mergedFields, path) ==
    [val |-> makeReference(own.id),
     st |-> commitRecord(
               scheduleEviction(
                   guarded(c, st, makeReference(own.id), mergedFields,
                           own.typename),
                   own.id, mergedFields),
               own, mergedFields, path)]

\* lines 289-338: what processSelectionSet does with the accumulator of an
\* identified object
commitEntity(c, st, own, acc, path) ==
    commitMerged(c, st, own, mergesApplied(st, makeReference(own.id), acc),
                 path)

\* the guard never finds the selection set
alreadyWritten_never(written, dataId, selectionSet) == FALSE

\* the resolved identifier wins over the one given
resolveDataId_preferResolved(givenId, id) == IF id # NoId THEN id ELSE givenId

\* the resolved identifier is never used
resolveDataId_givenOnly(givenId, id) == givenId

\* line 173: dataId = dataId || id
resolveDataId(givenId, id) == IF givenId # NoId THEN givenId ELSE id

\* line 183: sets.indexOf(selectionSet) >= 0
alreadyWritten(written, dataId, selectionSet) ==
    <<dataId, selectionSet>> \in written

\* lines 214-217
resolveTypename(s, dataId, result) ==
    LET rootType == IF dataId # NoId THEN rootTypenamesById(dataId) ELSE ""
        fromResult == getTypenameFromResult(result)
        stored == IF dataId # NoId THEN StoreGet(s, dataId, "__typename")
                  ELSE Undefined
    IN IF rootType # "" THEN rootType
       ELSE IF fromResult # "" THEN fromResult
       ELSE IF stored.k = "str" THEN stored.s ELSE ""

\* the directives of the selection are not looked at
isMissingFieldError_anyField(c, node) == c.strict

\* lines 264-267: an absent value is an error
isMissingFieldError(c, node) ==
    c.strict /\ ~hasDirectives({"defer", "client"}, node)

\* the key fields are left to the selection set
initialFields_withoutKeyObject(keyObject, typename) ==
    IF typename # "" THEN [key \in {"__typename"} |-> Str(typename)]
    ELSE NoFields

\* lines 203-221: the accumulator before the walk
initialFields(keyObject, typename) ==
    IF typename # ""
    THEN [key \in DOMAIN keyObject \cup {"__typename"} |->
            IF key = "__typename" THEN Str(typename)
            ELSE MergeFieldMaps(NoFields, keyObject)[key]]
    ELSE MergeFieldMaps(NoFields, keyObject)

\* lines 181-184: sets.push(selectionSet)
markWritten(st, dataId, selectionSet) ==
    IF dataId # NoId
    THEN [st EXCEPT !.written = @ \cup {<<dataId, selectionSet>>}]
    ELSE st

\* lines 249-257: the value merged under the storage key, and the flag
incomingValueOf(own, field, value) ==
    IF hasMergeFunction(own.typename, Node(field).name)
    THEN ToBeMerged(field, own.typename, value)
    ELSE value

\* variant: the flag of a call is seen by that call only, so only the
\* markers an entity creates itself set the flag its commit reads
flagMerges_ownCallOnly(own, field, st) ==
    IF hasMergeFunction(own.typename, Node(field).name) /\ own.id # NoId
    THEN [st EXCEPT !.apply = TRUE]
    ELSE st

\* line 257: out.shouldApplyMerges = true, on the object every call shares
flagMerges(own, field, st) ==
    IF hasMergeFunction(own.typename, Node(field).name)
    THEN [st EXCEPT !.apply = TRUE]
    ELSE st

RECURSIVE processSelectionSet(_, _, _, _, _, _)
RECURSIVE processFieldValue(_, _, _, _, _)
RECURSIVE processItems(_, _, _, _, _, _, _)
RECURSIVE itemProcessed(_, _, _, _, _, _, _)
RECURSIVE walkWorkSet(_, _, _, _, _, _, _, _)
RECURSIVE visitSelection(_, _, _, _, _, _, _, _, _)
RECURSIVE fieldProcessed(_, _, _, _, _, _, _, _)
RECURSIVE identifiedAs(_, _, _, _, _, _, _)
RECURSIVE walkFields(_, _, _, _, _, _, _)
RECURSIVE walked(_, _, _, _, _)

\* lines 343-366
processFieldValue(c, value, field, path, st) ==
    IF Node(field).sub = "" \/ value.k = "null"
    THEN [val |-> value, st |-> st]
    ELSE IF value.k = "list"
    THEN processItems(c, value.l, 1, <<>>, field, path, st)
    ELSE processSelectionSet(c, NoId, value, Node(field).sub, path, st)

\* line 357: value.map(item => this.processFieldValue(item, ...))
processItems(c, items, i, done, field, path, st) ==
    IF i > Len(items) \/ st.err # NoErr
    THEN [val |-> List(done), st |-> st]
    ELSE itemProcessed(c, items, i, done, field, path,
            processFieldValue(c, items[i], field, Append(path, IndexKey[i]), st))

itemProcessed(c, items, i, done, field, path, r) ==
    processItems(c, items, i + 1, Append(done, r.val), field, path, r.st)

\* lines 226-287: workSet.forEach, from position i on.  own names the
\* processSelectionSet call that owns the work set.
walkWorkSet(c, own, result, workSet, i, acc, path, st) ==
    IF i > Len(workSet) \/ st.err # NoErr
    THEN [acc |-> acc, st |-> st]
    ELSE visitSelection(c, own, result, workSet, i, acc, path, st,
                        Node(workSet[i]))

\* lines 227-286: the callback of workSet.forEach for one selection
visitSelection(c, own, result, workSet, i, acc, path, st, node) ==
    IF ~shouldInclude(node, c.variables)
    THEN walkWorkSet(c, own, result, workSet, i + 1, acc, path, st)
    ELSE IF node.kind = "field"
    THEN IF Get(result.f, node.key).k # "undef"
         THEN fieldProcessed(c, own, result, workSet, i, acc, path,
                 processFieldValue(c, result.f[node.key], workSet[i],
                     Append(path, node.key),
                     Logged(st, [ev |-> "field", id |-> own.id, ss |-> own.ss,
                                 path |-> path, node |-> workSet[i],
                                 store |-> node.store])))
         ELSE IF isMissingFieldError(c, node)
         THEN [acc |-> acc,
               st |-> [Logged(st, [ev |-> "absent", id |-> own.id,
                                   ss |-> own.ss, path |-> path,
                                   node |-> workSet[i]])
                         EXCEPT !.err = node.key]]
         ELSE walkWorkSet(c, own, result, workSet, i + 1, acc, path,
                          Logged(st, [ev |-> "absent", id |-> own.id,
                                      ss |-> own.ss, path |-> path,
                                      node |-> workSet[i]]))
    ELSE IF fragmentMatches(getFragmentFromSelection(node), own.typename)
    THEN walkWorkSet(c, own, result,
                     AddAll(workSet,
                            Selections[getFragmentFromSelection(node).sub]),
                     i + 1, acc, path, st)
    ELSE walkWorkSet(c, own, result, workSet, i + 1, acc, path, st)

\* lines 244-262: the processed value r.val is merged into the accumulator
fieldProcessed(c, own, result, workSet, i, acc, path, r) ==
    IF r.st.err # NoErr THEN [acc |-> acc, st |-> r.st]
    ELSE walkWorkSet(c, own, result, workSet, i + 1,
            MergeFieldMaps(acc,
                [x \in {Node(workSet[i]).store} |->
                    incomingValueOf(own, workSet[i], r.val)]),
            path, flagMerges(own, workSet[i], r.st))

\* lines 153-173
processSelectionSet(c, givenId, result, selectionSet, path, st) ==
    identifiedAs(c, result, selectionSet, path, st, identify(result).keyObject,
                 resolveDataId(givenId, identify(result).id))

\* lines 175-199: the two short cuts
identifiedAs(c, result, selectionSet, path, st, keyObject, dataId) ==
    IF dataId # NoId /\ alreadyWritten(st.written, dataId, selectionSet)
    THEN [val |-> makeReference(dataId),
          st |-> Logged(st, [ev |-> "again", id |-> dataId,
                             ss |-> selectionSet, path |-> path])]
    ELSE IF /\ dataId # NoId
            /\ c.reader
            /\ isFresh(c, st.store, result, makeReference(dataId), selectionSet)
    THEN [val |-> makeReference(dataId),
          st |-> Logged(markWritten(st, dataId, selectionSet),
                        [ev |-> "fresh", id |-> dataId, ss |-> selectionSet,
                         path |-> path])]
    ELSE walkFields(c, result, path, markWritten(st, dataId, selectionSet),
                    keyObject,
                    [id |-> dataId, ss |-> selectionSet,
                     typename |-> resolveTypename(st.store, dataId, result)],
                    dataId)

\* lines 201-287
walkFields(c, result, path, st, keyObject, own, dataId) ==
    walked(c, own, path, dataId,
           walkWorkSet(c, own, result, Selections[own.ss], 1,
                       initialFields(keyObject, own.typename), path,
                       Logged(st, [ev |-> "walk", id |-> dataId, ss |-> own.ss,
                                   path |-> path])))

\* the accumulator is committed and a Reference returned whether or not the
\* object has an identifier
walked_alwaysCommit(c, own, path, dataId, w) ==
    IF w.st.err # NoErr THEN [val |-> Undefined, st |-> w.st]
    ELSE commitEntity(c, w.st, own, w.acc, path)

\* the accumulator is committed although the walk has thrown
walked_commitOnError(c, own, path, dataId, w) ==
    IF dataId # NoId
    THEN [val |-> IF w.st.err # NoErr THEN Undefined
                  ELSE makeReference(dataId),
          st |-> commitEntity(c, w.st, own, w.acc, path).st]
    ELSE [val |-> Obj(w.acc), st |-> w.st]

\* lines 289-340
walked(c, own, path, dataId, w) ==
    IF w.st.err # NoErr THEN [val |-> Undefined, st |-> w.st]
    ELSE IF dataId # NoId
    THEN commitEntity(c, w.st, own, w.acc, path)
    ELSE [val |-> Obj(w.acc), st |-> w.st]

----------------------------------------------------------------------------
(* Write requests *)

Req(query, result, dataId) ==
    [query |-> query, result |-> result, dataId |-> dataId,
     variables |-> [x \in {} |-> FALSE], known |-> FALSE]

Todo(id, text, maxAge) ==
    Obj([__typename |-> Str("Todo"), id |-> Str(id), text |-> Str(text),
         maxAge |-> maxAge])
TodoPlain(id, text) ==
    Obj([__typename |-> Str("Todo"), id |-> Str(id), text |-> Str(text)])

\* one entity Todo:1 written at the root with time-to-live markers
TtlRequests ==
    { Req("Q1m", Todo("1", "a", Num(T1)), NoId),
      Req("Q1m", Todo("1", "b", Num(T2)), NoId),
      Req("Q1", Todo("1", "a", Num(T1)), NoId),
      Req("Q1m", Todo("1", "b", Num(0)), NoId),
      [Req("Q1m", Obj([id |-> Str("1"), text |-> Str("a"), maxAge |-> Num(T1)]),
           "Todo:1") EXCEPT !.known = TRUE] }

\* explicit and resolved identifiers
IdRequests ==
    { Req("Q1", Todo("1", "a", Num(T1)), "ROOT_QUERY"),
      Req("Q1m", Todo("1", "a", Num(T1)), "ROOT_QUERY"),
      Req("Q1m", Todo("1", "a", Num(T1)), NoId),
      Req("Q1m", Obj([id |-> Str("1"), text |-> Str("b"), maxAge |-> Num(T2)]),
          NoId),
      Req("Q1m", Todo("1", "b", Num(T2)), "Todo:9"),
      Req("K1", TodoPlain("1", "b"), "Todo:9") }

OwnerInline == Obj([name |-> Str("n"), age |-> Num(1)])
OwnerPartial == Obj([name |-> Str("m")])
OwnerEntity ==
    Obj([__typename |-> Str("Person"), id |-> Str("7"), name |-> Str("n")])

\* a nested entity with an inline or identified owner and a list with a
\* custom merge function
ObjRequests ==
    { Req("N0", Obj([todo |-> Obj([__typename |-> Str("Todo"), id |-> Str("1"),
                        text |-> Str("a"), maxAge |-> Num(T1),
                        owner |-> OwnerInline,
                        tags |-> List(<<Str("x"), Str("y")>>)])]),
          "ROOT_QUERY"),
      Req("N0", Obj([todo |-> Obj([__typename |-> Str("Todo"), id |-> Str("1"),
                        text |-> Str("b"), owner |-> OwnerPartial,
                        tags |-> List(<<Str("x")>>)])]),
          "ROOT_QUERY"),
      Req("N0", Obj([todo |-> Obj([__typename |-> Str("Todo"), id |-> Str("1"),
                        text |-> Str("a"), maxAge |-> Num(T2),
                        owner |-> OwnerEntity,
                        tags |-> List(<<Str("x")>>)])]),
          "ROOT_QUERY") }

\* lists of entities
ListRequests ==
    { Req("L0", Obj([todos |-> List(<<TodoPlain("1", "a"), TodoPlain("1", "a"),
                                      TodoPlain("2", "b")>>)]), "ROOT_QUERY"),
      Req("L0", Obj([todos |-> List(<<TodoPlain("1", "b")>>)]), "ROOT_QUERY"),
      Req("L0", Obj([todos |-> List(<<TodoPlain("2", "a"),
                        Obj([__typename |-> Str("Todo"), id |-> Str("3")])>>)]),
          "ROOT_QUERY"),
      Req("L2", Obj([todos |-> List(<<TodoPlain("1", "a"),
                                      TodoPlain("2", "b")>>)]), "ROOT_QUERY"),
      \* items the caller has read from the cache, in a new list
      [Req("L2", Obj([todos |-> List(<<TodoPlain("2", "b"),
                                       TodoPlain("1", "a")>>)]), "ROOT_QUERY")
          EXCEPT !.known = TRUE] }

\* fragments, directives and missing fields
FragRequests ==
    { Req("F0", Obj([todo |-> Todo("1", "a", Num(T1))]), "ROOT_QUERY"),
      Req("F0", Obj([todo |-> Obj([__typename |-> Str("Other"), id |-> Str("5"),
                                   text |-> Str("a")])]), "ROOT_QUERY"),
      Req("M0", Obj([todo |-> Obj([__typename |-> Str("Todo"), id |-> Str("1"),
                                   text |-> Str("a"), extra |-> Str("e")])]),
          "ROOT_QUERY"),
      [Req("M0", Obj([todo |-> TodoPlain("1", "a")]), "ROOT_QUERY")
          EXCEPT !.variables = [hide |-> TRUE]],
      Req("M0", Obj([todo |-> TodoPlain("1", "a")]), "ROOT_QUERY"),
      Req("X1", TodoPlain("1", "a"), NoId) }

\* Todo objects without an id, hence written inline into Holder:1, whose
\* tags field has a custom merge function
TodoInline(text, tags) ==
    Obj([__typename |-> Str("Todo"), text |-> Str(text), tags |-> List(tags)])

Holder(first, items) ==
    Obj([holder |-> Obj([__typename |-> Str("Holder"), id |-> Str("1"),
                         first |-> first, items |-> List(items)])])

MergeRequests ==
    { Req("P0", Holder(TodoInline("a", <<Str("x")>>),
                       <<TodoInline("b", <<Str("y")>>),
                         TodoInline("c", <<>>)>>), "ROOT_QUERY"),
      Req("P0", Holder(TodoInline("a", <<Str("z")>>),
                       <<TodoInline("b", <<Str("x"), Str("y")>>)>>),
          "ROOT_QUERY"),
      Req("P0", Holder(Obj([__typename |-> Str("Todo"), text |-> Str("d")]),
                       <<>>), "ROOT_QUERY") }

\* result objects that refer to each other in a cycle
Friend(id, friend) ==
    Obj([__typename |-> Str("Todo"), id |-> Str(id), late |-> Str("l"),
         friend |-> friend])
FriendWithoutLate(id, friend) ==
    Obj([__typename |-> Str("Todo"), id |-> Str(id), friend |-> friend])
\* the place where the result comes back to an object it already holds; the
\* write returns there before it reads any field but the identifying ones
Again(id) == Obj([__typename |-> Str("Todo"), id |-> Str(id)])

CycleRequests ==
    { \* 0 -> 1 -> 2 -> 1
      Req("C0", Obj([todo |-> Friend("0", Friend("1", Friend("2",
                        Again("1"))))]), "ROOT_QUERY"),
      \* the same, but the object 1 has no field late
      Req("C0", Obj([todo |-> Friend("0", FriendWithoutLate("1", Friend("2",
                        Again("1"))))]), "ROOT_QUERY"),
      \* 1 -> 1
      Req("C0", Obj([todo |-> Friend("1", Friend("1", Again("1")))]),
          "ROOT_QUERY") }

Families == {"ttl", "ids", "obj", "list", "frag", "merge", "cycle"}

Requests(f) ==
    CASE f = "ttl" -> TtlRequests
      [] f = "ids" -> IdRequests
      [] f = "obj" -> ObjRequests
      [] f = "list" -> ListRequests
      [] f = "frag" -> FragRequests
      [] f = "merge" -> MergeRequests
      [] f = "cycle" -> CycleRequests

\* the policies and environment each family is run under
Configs(f) ==
    CASE f = "ttl" -> [strict : {FALSE}, production : {FALSE}, reader : BOOLEAN,
                       own : {TRUE}]
                      \cup [strict : {FALSE}, production : {FALSE},
                            reader : {FALSE}, own : {FALSE}]
      [] f = "ids" -> [strict : {FALSE}, production : {FALSE}, reader : {FALSE},
                       own : {TRUE}]
      [] f = "obj" -> [strict : BOOLEAN, production : BOOLEAN, reader : {FALSE},
                       own : {TRUE}]
      [] f = "list" -> [strict : BOOLEAN, production : {FALSE}, reader : BOOLEAN,
                        own : {TRUE}]
      [] f = "frag" -> [strict : BOOLEAN, production : {FALSE}, reader : {FALSE},
                        own : {TRUE}]
      [] f = "merge" -> [strict : {FALSE}, production : BOOLEAN,
                         reader : {FALSE}, own : {TRUE}]
      [] f = "cycle" -> [strict : BOOLEAN, production : {FALSE},
                         reader : {FALSE}, own : {TRUE}]

\* line 369: the warnings set belongs to the module, not to the writer; an
\* earlier cache of the same process may have warned about Todo.owner
WarnedBefore(f, c) ==
    IF f = "obj" /\ ~c.strict /\ ~c.production
    THEN {{}, {"Todo.owner"}} ELSE {{}}

\* lines 121-124: defaults overridden by the call's variables
Variables(req) ==
    [v \in DOMAIN DefaultValues(req.query) \cup DOMAIN req.variables |->
        IF v \in DOMAIN req.variables THEN req.variables[v]
        ELSE DefaultValues(req.query)[v]]

----------------------------------------------------------------------------
(* The scheduler (react-native-job-queue) and the cache's evict / gc *)

\* new Date(Number(maxAge)).toISOString() throws a RangeError unless the
\* marker converts to a number
IsValidDate(v) == v.k = "num"

\* jobs.find(e => JSON.parse(e.payload).id === dataId)
HasJobFor(js, dataId) == \E i \in 1..Len(js) : js[i].id = dataId
FindJob(js, dataId) ==
    js[CHOOSE i \in 1..Len(js) :
          /\ js[i].id = dataId
          /\ \A j \in 1..(i - 1) : js[j].id # dataId]

RemoveJob(js, jid) == SelectSeq(js, LAMBDA j : j.jid # jid)

\* cache.evict(payload.id): the record is removed from the store
Evict(s, dataId) == [id \in DOMAIN s \ {dataId} |-> s[id]]

\* the identifiers a stored value refers to
RECURSIVE RefsOf(_)
RefsOf(v) ==
    CASE v.k = "ref" -> {v.ref}
      [] v.k = "obj" -> UNION { RefsOf(v.f[key]) : key \in DOMAIN v.f }
      [] v.k = "list" -> UNION { RefsOf(v.l[i]) : i \in 1..Len(v.l) }
      [] OTHER -> {}

RECURSIVE Reachable(_, _)
Reachable(s, ids) ==
    LET more == ids \cup UNION { RefsOf(Obj(s[id])) : id \in ids \cap DOMAIN s }
    IN IF more = ids THEN ids ELSE Reachable(s, more)

\* cache.gc(): records not reachable from a retained root are removed
Gc(s, roots) ==
    LET keep == Reachable(s, { id \in DOMAIN roots : roots[id] > 0 })
    IN [id \in DOMAIN s \cap keep |-> s[id]]

----------------------------------------------------------------------------
(* State machine *)

NoWrite ==
    [n |-> 0, req |-> Req("", Undefined, NoId), outcome |-> "none",
     ref |-> Undefined, err |-> NoErr, log |-> <<>>,
     pre |-> NoFields, post |-> NoFields,
     rootsPre |-> NoFields, rootsPost |-> NoFields, jobsPre |-> <<>>,
     warnPre |-> {}]

\* no call is being stepped through
NoWalk ==
    [status |-> "idle", graph |-> "", stack |-> <<>>, written |-> {},
     committed |-> <<>>, cut |-> 0, readded |-> 0]

Init ==
    /\ family \in Families
    /\ cfg \in Configs(family)
    /\ store = NoFields
    /\ rootIds = NoFields
    /\ jobs = <<>>
    /\ ops = {}
    /\ nextJob = 1
    /\ executedJobs = {}
    /\ now = 0
    /\ warnings \in WarnedBefore(family, cfg)
    /\ writes = 0
    /\ scheduled = <<>>
    /\ last = [NoWrite EXCEPT !.warnPre = warnings]
    /\ walk = NoWalk

\* store.retain(ref.__ref)
Retain(roots, dataId) ==
    [id \in DOMAIN roots \cup {dataId} |->
        IF id = dataId
        THEN (IF dataId \in DOMAIN roots THEN roots[dataId] ELSE 0) + 1
        ELSE roots[id]]

\* lines 142-143
returnedRef(objOrRef, dataId) ==
    IF isReference(objOrRef) THEN objOrRef
    ELSE IF dataId # NoId THEN makeReference(dataId)
    ELSE Undefined

\* lines 118-140: the context and the call of processSelectionSet
writeContext(req) ==
    [query |-> req.query, variables |-> Variables(req), known |-> req.known,
     strict |-> cfg.strict, production |-> cfg.production,
     reader |-> cfg.reader]

rootResult(req) == IF req.result.k = "obj" THEN req.result ELSE Obj(NoFields)

\* lines 142-150, or the error leaving writeToStore
refOf(req, r) ==
    IF r.st.err # NoErr THEN Undefined ELSE returnedRef(r.val, req.dataId)

outcomeOf(ref, r) ==
    IF r.st.err # NoErr THEN "error"
    ELSE IF isReference(ref) THEN "ref" ELSE "undefined"

written(req, r, ref) ==
    /\ store' = r.st.store
    /\ warnings' = r.st.warnings
    /\ ops' = ops \cup { [r.st.calls[i] EXCEPT !.tag = <<writes + 1, i>>] :
                         i \in 1..Len(r.st.calls) }
    /\ scheduled' = scheduled \o
          [i \in 1..Len(r.st.calls) |->
              <<r.st.calls[i].id, r.st.calls[i].maxAge>>]
    /\ rootIds' = IF isReference(ref) THEN Retain(rootIds, ref.ref) ELSE rootIds
    /\ last' = [n |-> writes + 1, req |-> req, outcome |-> outcomeOf(ref, r),
                ref |-> ref, err |-> r.st.err, log |-> r.st.log,
                pre |-> store, post |-> r.st.store,
                rootsPre |-> rootIds, rootsPost |-> rootIds',
                jobsPre |-> jobs, warnPre |-> warnings]

returned(req, r) == written(req, r, refOf(req, r))

\* lines 111-151
WriteToStore(req) ==
    /\ writes < MaxWrites
    /\ returned(req,
          processSelectionSet(writeContext(req), req.dataId, rootResult(req),
              req.query, <<>>,
              [store |-> store, written |-> {}, apply |-> FALSE,
               calls |-> <<>>, warnings |-> warnings, log |-> <<>>,
               err |-> NoErr]))
    /\ writes' = writes + 1
    /\ UNCHANGED <<walk, cfg, family, jobs, nextJob, executedJobs, now>>

\* lines 312-333: the callback of queue.getJobs().then, run on the job list
\* the scheduler holds when the promise resolves
GetJobsResolves(op) ==
    /\ op \in ops /\ op.type = "getJobs"
    /\ IF ~IsValidDate(op.maxAge)
       THEN ops' = ops \ {op}
       ELSE IF ~HasJobFor(jobs, op.id)
       THEN ops' = (ops \ {op}) \cup
                   {[op EXCEPT !.type = "addJob",
                               !.executionTime = ToISOString(op.maxAge.n)]}
       ELSE ops' = (ops \ {op}) \cup
                   {[op EXCEPT !.type = "update",
                               !.jid = FindJob(jobs, op.id).jid,
                               !.executionTime = ToISOString(op.maxAge.n)]}
    /\ UNCHANGED <<walk, cfg, family, store, rootIds, jobs, nextJob, executedJobs,
                   now, warnings, writes, scheduled, last>>

\* queue.addJob('removeCacheEntry', {id, executionTime}) reaches the queue
AddJobCompletes(op) ==
    /\ op \in ops /\ op.type = "addJob"
    /\ ops' = ops \ {op}
    /\ jobs' = Append(jobs, [jid |-> nextJob, id |-> op.id,
                             executionTime |-> op.executionTime])
    /\ nextJob' = nextJob + 1
    /\ UNCHANGED <<walk, cfg, family, store, rootIds, executedJobs, now, warnings,
                   writes, scheduled, last>>

\* queue.updateJobExecutionTime({...existingJob, executionTime}) resolves true:
\* the job is still queued and now carries the new execution time
UpdateSucceeds(op) ==
    /\ op \in ops /\ op.type = "update"
    /\ \E i \in 1..Len(jobs) : jobs[i].jid = op.jid
    /\ jobs' = [i \in 1..Len(jobs) |->
                  IF jobs[i].jid = op.jid
                  THEN [jobs[i] EXCEPT !.executionTime = op.executionTime]
                  ELSE jobs[i]]
    /\ ops' = ops \ {op}
    /\ UNCHANGED <<walk, cfg, family, store, rootIds, nextJob, executedJobs, now,
                   warnings, writes, scheduled, last>>

\* a failed update looks the job list up again
UpdateFails_retries(op) ==
    /\ op \in ops /\ op.type = "update"
    /\ ops' = (ops \ {op}) \cup {[op EXCEPT !.type = "getJobs"]}
    /\ UNCHANGED <<walk, cfg, family, store, rootIds, jobs, nextJob, executedJobs,
                   now, warnings, writes, scheduled, last>>

\* lines 325-330: the update resolves false and a fallback job is added
UpdateFails(op) ==
    /\ op \in ops /\ op.type = "update"
    /\ ops' = (ops \ {op}) \cup
              {[op EXCEPT !.type = "addJob",
                          !.executionTime = ToISOString(now + FallbackDelay)]}
    /\ UNCHANGED <<walk, cfg, family, store, rootIds, jobs, nextJob, executedJobs,
                   now, warnings, writes, scheduled, last>>

IsDue(job) == ParseISO(job.executionTime) <= now

\* line 89: this.cache.evict(payload.id) acts on the store of the cache the
\* writer was constructed with; the store argument of writeToStore (line 115)
\* is that store only when cfg.own holds, and is otherwise another
\* NormalizedCache, which the cache's evict does not reach
cacheEvict(s, dataId) == IF cfg.own THEN Evict(s, dataId) ELSE s

\* line 78: this.cache.gc() sweeps the store of the writer's cache
cacheGc(s, roots) == IF cfg.own THEN Gc(s, roots) ELSE s

\* lines 83-93: the removeCacheEntry worker runs a job that is due
RunJob(i) ==
    /\ i \in 1..Len(jobs)
    /\ IsDue(jobs[i])
    /\ store' = cacheEvict(store, jobs[i].id)
    /\ jobs' = RemoveJob(jobs, jobs[i].jid)
    /\ executedJobs' = executedJobs \cup {jobs[i].jid}
    /\ UNCHANGED <<walk, cfg, family, rootIds, ops, nextJob, now, warnings, writes,
                   scheduled, last>>

\* lines 76-80: onQueueFinish, once jobs have run and none is due
QueueFinish ==
    /\ executedJobs # {}
    /\ \A i \in 1..Len(jobs) : ~IsDue(jobs[i])
    /\ store' = cacheGc(store, rootIds)
    /\ executedJobs' = {}
    /\ UNCHANGED <<walk, cfg, family, rootIds, jobs, ops, nextJob, now, warnings,
                   writes, scheduled, last>>

\* time passes
Tick ==
    /\ now < MaxTicks * FallbackDelay
    /\ now' = now + FallbackDelay
    /\ UNCHANGED <<walk, cfg, family, store, rootIds, jobs, ops, nextJob,
                   executedJobs, warnings, writes, scheduled, last>>

Next ==
    \/ \E req \in Requests(family) : WriteToStore(req)
    \/ \E op \in ops : GetJobsResolves(op)
    \/ \E op \in ops : AddJobCompletes(op)
    \/ \E op \in ops : UpdateSucceeds(op)
    \/ \E op \in ops : UpdateFails(op)
    \/ \E i \in 1..Len(jobs) : RunJob(i)
    \/ QueueFinish
    \/ Tick

Spec == Init /\ [][Next]_vars

----------------------------------------------------------------------------
(* Properties *)

Range(seq) == { seq[i] : i \in 1..Len(seq) }

\* the positions of the pending jobs whose payload id is dataId
JobsFor(dataId) == { i \in 1..Len(jobs) : jobs[i].id = dataId }

\* the time-to-live markers the writes committed for dataId, oldest first
MarkersOf(dataId) == SelectSeq(scheduled, LAMBDA e : e[1] = dataId)

\* every scheduler callback has run and no job has been due yet
SchedulerSettled == ops = {} /\ now = 0

(* C1: after two writes of one identifier with different TTL markers, once
   every scheduler callback has run there is exactly one pending eviction
   job for the identifier, at the execution time of the latest write. *)
C1_OneJobAtLatestTime ==
    \A e \in Range(scheduled) :
        LET m == MarkersOf(e[1])
        IN (/\ SchedulerSettled
            /\ Len(m) >= 2
            /\ m[Len(m)][2] # m[Len(m) - 1][2])
           => /\ Cardinality(JobsFor(e[1])) = 1
              /\ \A i \in JobsFor(e[1]) :
                    jobs[i].executionTime = ToISOString(m[Len(m)][2].n)

\* the end-to-end write of the specification
ScenarioRequest == Req("Q1", Todo("1", "a", Num(T1)), "ROOT_QUERY")

(* C2, as claimed: the scenario write returns a Reference to Todo:1 and
   leaves one eviction job for Todo:1 at T1. *)
C2_ScenarioSchedulesTodo ==
    (last.req = ScenarioRequest /\ last.n = 1 /\ SchedulerSettled)
    => /\ last.ref = makeReference("Todo:1")
       /\ Cardinality(JobsFor("Todo:1")) = 1
       /\ \A i \in JobsFor("Todo:1") : jobs[i].executionTime = ToISOString(T1)

(* C2, amended: the scenario write returns a Reference to ROOT_QUERY, the
   explicit identifier, commits the selected fields under ROOT_QUERY and
   issues no scheduler operation, so no eviction job results from it. *)
C2_ScenarioWritesRoot ==
    last.req = ScenarioRequest
    => /\ last.outcome = "ref"
       /\ last.ref = makeReference("ROOT_QUERY")
       /\ \A e \in Range(last.log) : e.ev # "getJobs"
       /\ DOMAIN last.post = DOMAIN last.pre \cup {"ROOT_QUERY"}
       /\ Get(last.post["ROOT_QUERY"], "text") = Str("a")
       /\ last.n = 1 => (ops = {} /\ jobs = <<>>)

C2_Witness == last.req = ScenarioRequest /\ last.n = 1 /\ now > 0

(* C3: a write returns a Reference exactly when an explicit dataId was given
   or the root result resolved an identifier; store.retain is called once,
   with the returned identifier, exactly when a Reference is returned; a
   write that fails retains nothing. *)
C3_ReferenceAndRetain ==
    last.outcome # "none"
    => LET hasId == \/ last.req.dataId # NoId
                    \/ identify(last.req.result).id # NoId
           count(roots, id) == IF id \in DOMAIN roots THEN roots[id] ELSE 0
           ids == DOMAIN last.rootsPre \cup DOMAIN last.rootsPost
       IN /\ last.outcome # "error" => (last.outcome = "ref" <=> hasId)
          /\ last.outcome = "ref" <=> isReference(last.ref)
          /\ \A id \in ids :
                count(last.rootsPost, id) =
                    count(last.rootsPre, id)
                    + (IF isReference(last.ref) /\ last.ref.ref = id
                       THEN 1 ELSE 0)
          /\ isReference(last.ref) => last.ref.ref \in DOMAIN last.rootsPost

C3_Witness ==
    /\ last.outcome = "ref" /\ last.req.dataId = NoId
    /\ last.rootsPost[last.ref.ref] = 2

\* the events of the last write that belong to the pair (dataId, selectionSet)
EventsOf(kind, dataId, selectionSet) ==
    { i \in 1..Len(last.log) :
        /\ last.log[i].ev = kind
        /\ last.log[i].id = dataId
        /\ last.log[i].ss = selectionSet }

\* the processSelectionSet calls of the last write that had an identifier
IdentifiedCalls ==
    { i \in 1..Len(last.log) :
        last.log[i].ev \in {"walk", "again", "fresh"} /\ last.log[i].id # NoId }

(* C4: within one write, the field walk and store.merge happen at most once
   for each pair of identifier and selection-set object; a repeated call
   returns at once, with no field processed and nothing merged at its
   place in the result; and the guard starts empty in every write, so the
   first call for a pair is never taken for a repeat. *)
C4_WalkedOncePerWrite ==
    \A i \in IdentifiedCalls :
        LET e == last.log[i]
            first == CHOOSE j \in IdentifiedCalls :
                        /\ last.log[j].id = e.id /\ last.log[j].ss = e.ss
                        /\ \A k \in IdentifiedCalls :
                              (last.log[k].id = e.id /\ last.log[k].ss = e.ss)
                              => j <= k
        IN /\ Cardinality(EventsOf("walk", e.id, e.ss)) <= 1
           /\ Cardinality(EventsOf("merge", e.id, e.ss)) <= 1
           /\ (e.ev = "again") <=> (i # first)
           /\ e.ev = "again"
              => \A k \in 1..Len(last.log) :
                    (last.log[k].ev \in {"field", "merge", "absent"})
                    => last.log[k].path # e.path

C4_Witness ==
    /\ last.n = 2
    /\ \E i \in IdentifiedCalls : last.log[i].ev = "again"
    /\ EventsOf("merge", "Todo:1", "L1") # {}

\* the included field selections the last write visited and found absent
\* from the result
AbsentFields == { i \in 1..Len(last.log) : last.log[i].ev = "absent" }

\* such a selection that neither @defer nor @client excuses
Unexcused(i) == Node(last.log[i].node).dirs \cap {"defer", "client"} = {}

\* the missing-field scenario: selection {id text missing} against
\* {id:"1", text:"a"}
MissingFieldRequest == Req("X1", TodoPlain("1", "a"), NoId)

(* C5: a write fails with a missing-field error exactly when the policy is
   strict and some visited, included field selection without @defer or
   @client has no value in the result; the error names that field.
   Otherwise an absent value is skipped: the write does not fail for it and
   the field is not written. *)
C5_MissingFieldError ==
    /\ (last.outcome = "error")
        <=> (cfg.strict /\ \E i \in AbsentFields : Unexcused(i))
    /\ last.outcome = "error"
       => /\ last.log[Len(last.log)].ev = "absent"
          /\ Unexcused(Len(last.log))
          /\ shouldInclude(Node(last.log[Len(last.log)].node),
                           Variables(last.req))
          /\ last.err = Node(last.log[Len(last.log)].node).key
    /\ (last.req = MissingFieldRequest /\ cfg.strict)
       => (last.outcome = "error" /\ last.err = "missing")
    /\ last.outcome \in {"ref", "undefined"}
       => \A i \in AbsentFields : \A k \in 1..Len(last.log) :
             (last.log[k].ev = "merge" /\ last.log[k].path = last.log[i].path)
             => Node(last.log[i].node).store \notin DOMAIN last.log[k].incoming

C5_Witness ==
    /\ last.req = MissingFieldRequest
    /\ last.outcome = "error"
    /\ last.err = "missing"

\* the store.merge calls of a log, applied in order to a store
RECURSIVE ReplayMerges(_, _, _)
ReplayMerges(s, log, i) ==
    IF i > Len(log) THEN s
    ELSE IF log[i].ev = "merge"
    THEN ReplayMerges(StoreMerge(s, log[i].id, log[i].incoming), log, i + 1)
    ELSE ReplayMerges(s, log, i + 1)

IsPrefix(p, q) == Len(p) <= Len(q) /\ SubSeq(q, 1, Len(p)) = p

MergeEvents == { i \in 1..Len(last.log) : last.log[i].ev = "merge" }

(* C6: a write that fails with a missing-field error is not rolled back:
   the store afterwards holds every record merged before the failure, while
   the processSelectionSet call whose walk raised the error and the calls
   enclosing it have merged nothing. *)
C6_NoRollback ==
    last.outcome = "error"
    => /\ last.post = ReplayMerges(last.pre, last.log, 1)
       /\ \A i \in MergeEvents :
             /\ last.log[i].id \in DOMAIN last.post
             /\ \A key \in DOMAIN last.log[i].incoming :
                   key \in DOMAIN last.post[last.log[i].id]
             /\ ~IsPrefix(last.log[i].path, last.log[Len(last.log)].path)

C6_Witness ==
    /\ last.outcome = "error"
    /\ MergeEvents # {}
    /\ last.post # last.pre
    /\ Len(last.log[Len(last.log)].path) = 2

\* the key paths into a stored value: fields of inline objects and positions
\* of lists, at any depth
RECURSIVE KeyPathsOf(_)
KeyPathsOf(v) ==
    CASE v.k = "obj" ->
            UNION { {<<key>>} \cup { <<key>> \o q : q \in KeyPathsOf(v.f[key]) } :
                    key \in DOMAIN v.f }
      [] v.k = "list" ->
            UNION { {<<IndexKey[i]>>}
                    \cup { <<IndexKey[i]>> \o q : q \in KeyPathsOf(v.l[i]) } :
                    i \in 1..Len(v.l) }
      [] OTHER -> {}

\* the value a key path leads to
RECURSIVE ValueAt(_, _)
ValueAt(v, path) ==
    IF path = <<>> THEN v
    ELSE IF v.k = "obj" /\ Head(path) \in DOMAIN v.f
    THEN ValueAt(v.f[Head(path)], Tail(path))
    ELSE IF v.k = "list" /\ \E i \in 1..Len(v.l) : IndexKey[i] = Head(path)
    THEN ValueAt(v.l[CHOOSE i \in 1..Len(v.l) : IndexKey[i] = Head(path)],
                 Tail(path))
    ELSE Undefined

\* the key paths of the stored record that one store.merge call removed
LostPaths(e) == KeyPathsOf(Obj(e.before)) \ KeyPathsOf(Obj(e.after))

\* (a) the top-level field of the path has a custom merge function
ReplacedByMergeFunction(e, path) ==
    hasMergeFunction(e.typename, fieldNameFromStoreName(path[1]))

\* (b) at the field or sub-field q, every key of the existing value is
\* present in the incoming value
EveryKeyIncoming(e, q) ==
    /\ ValueAt(Obj(e.incoming), q).k # "undef"
    /\ \A key \in KeysOf(ValueAt(Obj(e.before), q)) :
          getFieldValue(last.post, ValueAt(Obj(e.incoming), q), key).k # "undef"

\* (c) at the field or sub-field q the record supplies a value and the
\* existing or the incoming value is not an inline object: a Reference, a
\* list, a scalar or null, which store.merge replaces wholesale
ReplacedWholesale(e, q) ==
    /\ ValueAt(Obj(e.incoming), q).k # "undef"
    /\ \/ ValueAt(Obj(e.incoming), q).k # "obj"
       \/ ValueAt(Obj(e.before), q).k # "obj"

Enclosing(path) == { SubSeq(path, 1, n) : n \in 1..(Len(path) - 1) }

(* C7, as claimed: a later write of an entity loses a stored field or
   sub-field only if (a) a custom merge function of the field replaced it or
   (b) every key of the existing sub-value is present in the incoming one. *)
C7_NoFieldLost ==
    \A i \in MergeEvents : \A path \in LostPaths(last.log[i]) :
        \/ ReplacedByMergeFunction(last.log[i], path)
        \/ \E q \in Enclosing(path) : EveryKeyIncoming(last.log[i], q)

(* C7, amended: a later write of an entity loses a stored field or sub-field
   only if (a), or (b), or (c) the existing or the incoming value at that
   field or at an enclosing sub-field is not an inline object (a Reference,
   a list, a scalar or null), so that the incoming value replaces the
   existing one wholesale.  No top-level field of the record is ever lost. *)
C7_FieldLostOnlyByReplacement ==
    \A i \in MergeEvents :
        /\ DOMAIN last.log[i].before \subseteq DOMAIN last.log[i].after
        /\ \A path \in LostPaths(last.log[i]) :
              \/ ReplacedByMergeFunction(last.log[i], path)
              \/ \E q \in Enclosing(path) :
                    \/ EveryKeyIncoming(last.log[i], q)
                    \/ ReplacedWholesale(last.log[i], q)

C7_Witness ==
    \E i \in MergeEvents : \E path \in LostPaths(last.log[i]) :
        /\ last.log[i].id = "Todo:1"
        /\ isReference(last.log[i].after["owner"])
        /\ ~ReplacedByMergeFunction(last.log[i], path)
        /\ \A q \in Enclosing(path) : ~EveryKeyIncoming(last.log[i], q)
        /\ \E q \in Enclosing(path) : ReplacedWholesale(last.log[i], q)

\* one store.merge call kept every key of the record the incoming record
\* does not supply, with its value
KeepsAbsentKeys(e) ==
    /\ DOMAIN e.before \subseteq DOMAIN e.after
    /\ \A key \in DOMAIN e.before \ DOMAIN e.incoming :
          e.after[key] = e.before[key]

(* C8: a merge never removes a key the incoming record does not supply,
   merging the empty record into a stored record leaves it unchanged, and a
   record that stays in the store keeps every storage key it has: records
   disappear only when a job evicts them or the queue's end collects them. *)
C8_MergeMonotone ==
    [][ /\ \A id \in DOMAIN store \cap DOMAIN store' :
              DOMAIN store[id] \subseteq DOMAIN store'[id]
        /\ \A id \in DOMAIN store' :
              StoreMerge(store', id, NoFields) = store'
        /\ writes' # writes =>
              /\ DOMAIN store \subseteq DOMAIN store'
              /\ \A i \in 1..Len(last'.log) :
                    last'.log[i].ev = "merge" => KeepsAbsentKeys(last'.log[i]) ]_vars

C8_Witness ==
    /\ last.outcome = "ref"
    /\ \E i \in MergeEvents :
          /\ last.log[i].id = "Todo:1"
          /\ DOMAIN last.log[i].incoming # DOMAIN last.log[i].before
          /\ DOMAIN last.log[i].incoming \subseteq DOMAIN last.log[i].before
          /\ "maxAge" \in DOMAIN store["Todo:1"] \ DOMAIN last.log[i].incoming

\* the fields at which one store.merge call met a stored Reference with an
\* incoming inline object
InlineOverReference(e) == ThroughReference(e.before, e.incoming)

(* C9: when a record's field holds a Reference to an entity and a later write
   supplies an inline object for that field, the field afterwards holds the
   inline object, and the record of the referenced entity, which the write
   does not itself commit, is the same after the write as before it. *)
C9_ReferenceOpaque ==
    \A i \in MergeEvents : \A key \in InlineOverReference(last.log[i]) :
        /\ last.log[i].after[key] = last.log[i].incoming[key]
        /\ (\A j \in MergeEvents :
               last.log[j].id # last.log[i].before[key].ref)
           => StoreRecord(last.post, last.log[i].before[key].ref)
                 = StoreRecord(last.pre, last.log[i].before[key].ref)

C9_Witness ==
    \E i \in MergeEvents :
        /\ last.log[i].id = "Todo:1"
        /\ "owner" \in InlineOverReference(last.log[i])
        /\ last.log[i].before["owner"] = makeReference("Person:7")
        /\ "Person:7" \in DOMAIN last.pre
        /\ "Person:7" \in DOMAIN store
        /\ store["Todo:1"]["owner"].k = "obj"

\* the fields the last write processed: the processFieldValue calls
FieldEvents == { i \in 1..Len(last.log) : last.log[i].ev = "field" }

\* two events of one processSelectionSet call
SameCall(i, j) ==
    /\ last.log[i].id = last.log[j].id
    /\ last.log[i].path = last.log[j].path
    /\ last.log[i].ss = last.log[j].ss

\* the field nodes the matching fragments of a selection set contribute
FragmentFieldNodes(selectionSet, typename) ==
    UNION { { f \in Range(Selections[getFragmentFromSelection(Node(n)).sub]) :
                Node(f).kind = "field" } :
            n \in { x \in Range(Selections[selectionSet]) :
                      /\ Node(x).kind # "field"
                      /\ fragmentMatches(getFragmentFromSelection(Node(x)),
                                         typename) } }

(* C10, as claimed: within one processSelectionSet call a field that
   several matching fragments contribute is processed exactly once, whether
   one fragment is spread twice or two fragments declare the field. *)
C10_FieldProcessedOnce ==
    \A i \in FieldEvents : \A j \in FieldEvents :
        (SameCall(i, j) /\ last.log[i].store = last.log[j].store) => i = j

(* C10, amended: within one processSelectionSet call every field node that
   the matching fragments contribute is visited exactly once, however often
   its fragment is spread, so a field that two distinct fragments declare is
   processed once for each declaring node; and the record the call commits
   holds one entry for the field. *)
C10_FieldNodeProcessedOnce ==
    /\ \A i \in FieldEvents : \A j \in FieldEvents :
          (SameCall(i, j) /\ last.log[i].node = last.log[j].node) => i = j
    /\ \A m \in MergeEvents :
          /\ \A i \in FieldEvents :
                SameCall(m, i) => last.log[i].store \in DOMAIN last.log[m].incoming
          /\ \A n \in FragmentFieldNodes(last.log[m].ss, last.log[m].typename) :
                Cardinality({ i \in 1..Len(last.log) :
                                /\ last.log[i].ev \in {"field", "absent"}
                                /\ SameCall(m, i)
                                /\ last.log[i].node = n }) = 1

C10_Witness ==
    \E m \in MergeEvents :
        /\ last.log[m].ss = "F1"
        /\ last.log[m].id = "Todo:1"
        /\ \E i \in FieldEvents : \E j \in FieldEvents :
              /\ SameCall(m, i) /\ SameCall(m, j)
              /\ last.log[i].node = "F2.text"
              /\ last.log[j].node = "F3.text"
        /\ last.log[m].incoming["text"] = Str("a")

\* the queue.getJobs() calls of the last write
LookupEvents == { i \in 1..Len(last.log) : last.log[i].ev = "getJobs" }

(* C11, as claimed: every scheduler operation of a write, the query of the
   job list included, is fired after the store.merge of the record it
   concerns. *)
C11_SchedulerAfterCommit ==
    \A i \in LookupEvents :
        \E j \in MergeEvents :
            /\ j < i
            /\ last.log[j].id = last.log[i].id
            /\ Get(last.log[j].incoming, "maxAge") = last.log[i].maxAge

\* the store and the Reference a write of req leaves when it starts from the
\* store s, whatever the scheduler holds
OutcomeIn(c, req, s) ==
    processSelectionSet(c, req.dataId, rootResult(req),
        req.query, <<>>,
        [store |-> s, written |-> {}, apply |-> FALSE, calls |-> <<>>,
         warnings |-> {}, log |-> <<>>, err |-> NoErr])

OutcomeFrom(req, s) == OutcomeIn(writeContext(req), req, s)

(* C11, amended: a write queries the job list (queue.getJobs) immediately
   before the store.merge of the record concerned, in the same synchronous
   call; jobs are added or updated only in later steps, after the write has
   returned; the write awaits none of them and changes no job; the store and
   the Reference it leaves are determined by the request and the store
   before it alone; and no scheduler step changes the store, the retained
   roots or the write's result. *)
C11_SchedulerNotAwaited ==
    [][ /\ writes' # writes =>
              /\ jobs' = jobs
              /\ ops \subseteq ops'
              /\ \A op \in ops' \ ops :
                    /\ op.type = "getJobs"
                    /\ op.id \in DOMAIN store'
              /\ \A i \in 1..Len(last'.log) :
                    last'.log[i].ev = "getJobs" =>
                       /\ i < Len(last'.log)
                       /\ last'.log[i + 1].ev = "merge"
                       /\ last'.log[i + 1].id = last'.log[i].id
                       /\ Get(last'.log[i + 1].incoming, "maxAge")
                             = last'.log[i].maxAge
              /\ store' = OutcomeFrom(last'.req, store).st.store
              /\ last'.ref = refOf(last'.req, OutcomeFrom(last'.req, store))
        /\ writes' = writes =>
              /\ \A op \in ops' \ ops : op.type \in {"addJob", "update"}
              /\ (ops' # ops \/ nextJob' # nextJob) =>
                    /\ store' = store
                    /\ rootIds' = rootIds
                    /\ last' = last ]_vars

C11_Witness ==
    /\ last.outcome = "ref"
    /\ LookupEvents # {}
    /\ \E op \in ops : op.type = "getJobs" /\ op.tag[1] < last.n
    /\ \E i \in 1..Len(jobs) : jobs[i].id = "Todo:1"

\* the execution time a job carries once it is reconciled to a marker
MarkerTime(maxAge) ==
    IF IsValidDate(maxAge) THEN ToISOString(maxAge.n) ELSE [iso |-> -1]

\* the jobs that were pending when the last write ran, for a record that the
\* write committed and the store still holds
PendingAtLastWrite(job) ==
    /\ \E k \in 1..Len(last.jobsPre) : last.jobsPre[k].jid = job.jid
    /\ \E m \in MergeEvents : last.log[m].id = job.id
    /\ job.id \in DOMAIN store

\* the time-to-live marker the last write committed for dataId
LatestMarker(dataId) ==
    Get(last.log[CHOOSE m \in MergeEvents :
                    /\ last.log[m].id = dataId
                    /\ \A k \in MergeEvents :
                          last.log[k].id = dataId => k <= m].incoming,
        "maxAge")

(* C12, as claimed: a job that was pending for an identifier when a later
   write committed that identifier's record never removes the record at an
   execution time other than the marker of that latest write. *)
C12_StaleJobNeverFires ==
    [][ \A i \in 1..Len(jobs) :
           (RunJob(i) /\ PendingAtLastWrite(jobs[i]))
           => jobs[i].executionTime = MarkerTime(LatestMarker(jobs[i].id)) ]_vars

(* C13, as claimed: a job that executes removes the record of its payload
   identifier, and nothing else, from the store the write committed the
   record to; the queue's end sweeps that store and removes exactly the
   records no retained root reaches. *)
C13_EvictsFromWrittenStore ==
    [][ /\ \A i \in 1..Len(jobs) :
              RunJob(i) => store' = Evict(store, jobs[i].id)
        /\ QueueFinish => store' = Gc(store, rootIds) ]_vars

\* the reconciliation of one committed record moved from op to the
\* operations in added, in a step that is no write
LookupDone(op, added) ==
    /\ jobs' = jobs
    /\ IF ~HasJobFor(jobs, op.id)
       THEN added = {[op EXCEPT !.type = "addJob",
                                !.executionTime = MarkerTime(op.maxAge)]}
       ELSE \E i \in JobsFor(op.id) :
               added = {[op EXCEPT !.type = "update", !.jid = jobs[i].jid,
                                   !.executionTime = MarkerTime(op.maxAge)]}

JobAdded(op, added) ==
    /\ added = {}
    /\ Len(jobs') = Len(jobs) + 1
    /\ SubSeq(jobs', 1, Len(jobs)) = jobs
    /\ jobs'[Len(jobs')].id = op.id
    /\ jobs'[Len(jobs')].executionTime = op.executionTime

UpdatedInPlace(op, added) ==
    /\ added = {}
    /\ Len(jobs') = Len(jobs)
    /\ \E i \in JobsFor(op.id) : jobs[i].jid = op.jid
    /\ \A i \in 1..Len(jobs) :
          jobs'[i] = IF jobs[i].jid = op.jid
                     THEN [jobs[i] EXCEPT
                              !.executionTime = MarkerTime(op.maxAge)]
                     ELSE jobs[i]

FallbackAdded(op, added) ==
    /\ jobs' = jobs
    /\ added = {[op EXCEPT !.type = "addJob",
                           !.executionTime = ToISOString(now + 30000)]}

(* C14: the reconciliation of one committed record with a time-to-live
   marker looks the job list up once; with no pending job for the identifier
   it adds one job at the marker; with one it adds none and updates that
   job's execution time in place to the marker; only a failed update adds
   one fallback job, 30 seconds after the current time, and nothing follows
   an added job: no path of the reconciliation adds two jobs. *)
C14_OneAddJobPerRecord ==
    [][ /\ writes' # writes =>
              /\ jobs' = jobs
              /\ Cardinality(ops' \ ops)
                    = Cardinality({ i \in 1..Len(last'.log) :
                                      last'.log[i].ev = "getJobs" })
        /\ (writes' = writes /\ ops' # ops) =>
              \E op \in ops :
                 /\ ops \ ops' = {op}
                 /\ IsValidDate(op.maxAge)
                 /\ CASE op.type = "getJobs" -> LookupDone(op, ops' \ ops)
                      [] op.type = "addJob" -> JobAdded(op, ops' \ ops)
                      [] op.type = "update" ->
                            \/ UpdatedInPlace(op, ops' \ ops)
                            \/ FallbackAdded(op, ops' \ ops)
        /\ (writes' = writes /\ ops' = ops) => Len(jobs') <= Len(jobs) ]_vars

\* a fallback job stands next to the job whose update failed
C14_Witness ==
    /\ ops = {}
    /\ Len(jobs) = 2
    /\ jobs[1].id = "Todo:1" /\ jobs[2].id = "Todo:1"
    /\ jobs[2].executionTime = ToISOString(3 * 30000)
    /\ jobs[1].executionTime = ToISOString(T1)

\* the commit at position m of the last write's log was preceded by the
\* call of queue.getJobs() for its record
Triggered(m) ==
    /\ m > 1
    /\ last.log[m - 1].ev = "getJobs"
    /\ last.log[m - 1].id = last.log[m].id

(* C15, as claimed: no scheduler operation or job ever concerns ROOT_QUERY, a
   commit whose record has no maxAge issues no scheduler operation, and every
   commit of a non-root record that has a maxAge, whatever its value, calls
   the scheduler. *)
C15_MarkerTriggersScheduler ==
    /\ \A op \in ops : op.id # "ROOT_QUERY"
    /\ \A i \in 1..Len(jobs) : jobs[i].id # "ROOT_QUERY"
    /\ \A m \in MergeEvents :
          Triggered(m) <=> /\ last.log[m].id # "ROOT_QUERY"
                           /\ "maxAge" \in DOMAIN last.log[m].incoming

\* the commit of the object the last write was called with
RootCommits == { m \in MergeEvents : last.log[m].path = <<>> }

(* C16: a write given an explicit identifier commits the record under that
   identifier, also when policies.identify derives another one from the
   result, and the committed record holds the key fields policies.identify
   derived, also when the selection set selects none of them; nothing is
   stored under the derived identifier.  Only a write the reader reports
   fresh commits nothing. *)
C16_ExplicitIdKeepsKeyFields ==
    (last.req.dataId # NoId /\ last.outcome = "ref") =>
       /\ Cardinality(RootCommits)
             = (IF last.log[1].ev = "fresh" THEN 0 ELSE 1)
       /\ \A m \in RootCommits :
             /\ last.log[m].id = last.req.dataId
             /\ \A key \in DOMAIN identify(rootResult(last.req)).keyObject :
                   /\ key \in DOMAIN last.log[m].incoming
                   /\ last.log[m].incoming[key]
                         = identify(rootResult(last.req)).keyObject[key]
                   /\ last.post[last.req.dataId][key]
                         = identify(rootResult(last.req)).keyObject[key]
       /\ (identify(rootResult(last.req)).id \notin DOMAIN last.pre
           => identify(rootResult(last.req)).id \notin DOMAIN last.post)

C16_Witness ==
    /\ last.req = Req("K1", TodoPlain("1", "b"), "Todo:9")
    /\ last.outcome = "ref"
    /\ identify(rootResult(last.req)).id = "Todo:1"
    /\ "Todo:9" \in DOMAIN store
    /\ store["Todo:9"]["id"] = Str("1")
    /\ "Todo:1" \notin DOMAIN store

\* the processSelectionSet calls of the last write
CallEvents ==
    { i \in 1..Len(last.log) : last.log[i].ev \in {"walk", "again", "fresh"} }

\* the response path from the field of event f down to the call of event w:
\* list positions only
Positions(f, w) ==
    SubSeq(last.log[w].path, Len(last.log[f].path) + 2, Len(last.log[w].path))

\* the call of event w processed the value, or an item of the list value, of
\* the field of event f
Under(f, w) ==
    /\ f < w
    /\ IsPrefix(Append(last.log[f].path, Node(last.log[f].node).key),
                last.log[w].path)
    /\ \A k \in 1..Len(Positions(f, w)) :
          \E n \in 1..Len(IndexKey) : IndexKey[n] = Positions(f, w)[k]

\* what the commit of event m holds where the call of event w returned
Embedded(m, f, w) ==
    ValueAt(Obj(last.log[m].incoming),
            <<last.log[f].store>> \o Positions(f, w))

(* C17: store.merge is called only for an object with an identifier, and
   once its fields were walked; the record of the enclosing object holds a
   Reference to the identifier where the object has one and otherwise the
   object's accumulated fields as an inline object; a write given no
   identifier returns a Reference exactly when its root object has one; and
   every Reference a write commits or returns names the identifier of an
   object of that write. *)
C17_ReferenceIffIdentified ==
    /\ \A m \in MergeEvents :
          /\ last.log[m].id # NoId
          /\ \E w \in CallEvents :
                w < m /\ last.log[w].ev = "walk" /\ SameCall(w, m)
    /\ \A w \in CallEvents :
          last.log[w].id = NoId => \A m \in MergeEvents : ~SameCall(w, m)
    /\ \A m \in MergeEvents : \A f \in FieldEvents : \A w \in CallEvents :
          (SameCall(m, f) /\ Under(f, w)) =>
             IF last.log[w].id # NoId
             THEN Embedded(m, f, w) = makeReference(last.log[w].id)
             ELSE /\ Embedded(m, f, w).k = "obj"
                  /\ \A g \in FieldEvents :
                        SameCall(g, w) =>
                           last.log[g].store \in DOMAIN Embedded(m, f, w).f
    /\ (last.req.dataId = NoId /\ last.outcome \in {"ref", "undefined"}) =>
          (isReference(last.ref) <=> last.log[1].id # NoId)
    /\ (UNION { RefsOf(Obj(last.log[m].incoming)) : m \in MergeEvents }
          \cup (IF isReference(last.ref) THEN {last.ref.ref} ELSE {}))
       \subseteq { last.log[w].id : w \in CallEvents } \ {NoId}

\* an inline owner embedded in the record of Todo:1
C17_Witness ==
    \E m \in MergeEvents : \E f \in FieldEvents : \E w \in CallEvents :
        /\ SameCall(m, f) /\ Under(f, w)
        /\ last.log[m].id = "Todo:1"
        /\ last.log[f].store = "owner"
        /\ last.log[w].id = NoId
        /\ store["Todo:1"]["owner"].k = "obj"

\* the warnings the last write emitted
Warned == warnings \ last.warnPre

\* the fields of the commit of event m that the guard looks at
GuardedFields(m) ==
    { key \in DOMAIN last.log[m].incoming :
        ~hasMergeFunction(last.log[m].typename, fieldNameFromStoreName(key)) }

\* an object, a list or a Reference
ObjectShaped(v) == v.k \in {"obj", "list", "ref"}

\* every key of the existing value is a key of the incoming object or list,
\* or of the record the incoming Reference names
EveryKeyPresent(existing, incoming) ==
    \A key \in KeysOf(existing) :
        IF isReference(incoming)
        THEN key \in DOMAIN StoreRecord(last.post, incoming.ref)
        ELSE key \in KeysOf(incoming)

\* the cases the claim lists for the field key of the commit of event m
SilentAsClaimed(m, key) ==
    \/ ~ObjectShaped(Get(last.log[m].before, key))
    \/ ~ObjectShaped(last.log[m].incoming[key])
    \/ isReference(Get(last.log[m].before, key))
    \/ isReference(last.log[m].incoming[key])
    \/ Get(last.log[m].before, key) = last.log[m].incoming[key]
    \/ \A k \in KeysOf(Get(last.log[m].before, key)) :
          k \in KeysOf(last.log[m].incoming[key])

\* the cases of lines 384-404
SilentInCode(m, key) ==
    \/ ~ObjectShaped(Get(last.log[m].before, key))
    \/ ~ObjectShaped(last.log[m].incoming[key])
    \/ isReference(Get(last.log[m].before, key))
    \/ Get(last.log[m].before, key) = last.log[m].incoming[key]
    \/ EveryKeyPresent(Get(last.log[m].before, key), last.log[m].incoming[key])

\* the parent type and field name a warning of the commit of event m names
WarningName(m, key) ==
    (IF Get(last.log[m].before, "__typename").k = "str"
     THEN last.log[m].before["__typename"].s
     ELSE IF Get(last.log[m].incoming, "__typename").k = "str"
     THEN last.log[m].incoming["__typename"].s
     ELSE "undefined") \o "." \o fieldNameFromStoreName(key)

(* C18, as claimed: the last write emitted no warning for a field at which
   the existing or the incoming value is absent, not object-shaped or a
   Reference, or the two are equal, or every key of the existing value is a
   key of the incoming value. *)
C18_SilentCases ==
    \A m \in MergeEvents : \A key \in GuardedFields(m) :
        SilentAsClaimed(m, key) => WarningName(m, key) \notin Warned

(* C18, amended: the guard is silent when the existing or the incoming value
   is absent or not object-shaped, when the existing value is a Reference,
   when the two are equal, and when every key of the existing value is
   present in the incoming value, which for an incoming Reference means
   present in the record it names; a write warns about exactly the other
   guarded fields that were not warned about before. *)
C18_SilentCasesOfCode ==
    Warned = IF cfg.production THEN {}
             ELSE UNION { { WarningName(m, key) :
                            key \in { k \in GuardedFields(m) :
                                        ~SilentInCode(m, k) } } :
                          m \in MergeEvents }
                  \ last.warnPre

\* an incoming Reference replaced an inline object whose keys the named
\* record all holds, and no warning was emitted
C18_Witness ==
    /\ ~cfg.production
    /\ Warned = {}
    /\ \E m \in MergeEvents :
          /\ last.log[m].id = "Todo:1"
          /\ Get(last.log[m].before, "owner").k = "obj"
          /\ isReference(last.log[m].incoming["owner"])
          /\ Get(last.log[m].before, "owner") # last.log[m].incoming["owner"]

\* the calls of invariant.warn in the last write
WarnEvents == { i \in 1..Len(last.log) : last.log[i].ev = "warn" }

\* the write context of the last write with the production mode inverted
OtherMode == [writeContext(last.req) EXCEPT !.production = ~cfg.production]

WarnedOnce ==
    /\ \A i \in WarnEvents :
          /\ last.log[i].names \cap last.warnPre = {}
          /\ last.log[i].names \subseteq warnings
          /\ \A j \in WarnEvents :
                j # i => last.log[i].names \cap last.log[j].names = {}
          /\ \A name \in last.log[i].names :
                \E m \in MergeEvents : \E key \in GuardedFields(m) :
                   /\ last.log[m].id = last.log[i].id
                   /\ WarningName(m, key) = name
    /\ Warned = UNION { last.log[i].names : i \in WarnEvents }
    /\ cfg.production => (WarnEvents = {} /\ Warned = {})

(* C19: a write warns only about names never warned about before in the
   process and about each at most once, so every name is warned about at
   most once; the guard runs only when the mode is not production and only
   over fields without a custom merge function; and the store and the
   Reference a write leaves are the same with the guard on and off. *)
C19_WarnOnceStoreUntouched ==
    [][ /\ writes' # writes =>
              /\ WarnedOnce'
              /\ store' = OutcomeIn(OtherMode', last'.req, store).st.store
              /\ last'.ref = refOf(last'.req,
                                   OutcomeIn(OtherMode', last'.req, store))
        /\ writes' = writes => warnings' = warnings ]_vars

\* the guard found data loss at Todo.owner, which had been warned about
C19_Witness ==
    /\ ~cfg.production
    /\ WarnEvents = {}
    /\ "Todo.owner" \in last.warnPre
    /\ \E m \in MergeEvents : \E key \in GuardedFields(m) :
          /\ ~SilentInCode(m, key)
          /\ WarningName(m, key) = "Todo.owner"
    /\ \E m \in MergeEvents :
          /\ last.log[m].id = "Todo:1"
          /\ Get(last.log[m].before, "tags") # last.log[m].incoming["tags"]

----------------------------------------------------------------------------
(* The freshness short cut (lines 191-198) against the full walk *)

\* the context of the last write with the reader's isFresh check switched
OtherReader == [writeContext(last.req) EXCEPT !.reader = ~cfg.reader]

ShortCircuited(log) == { i \in 1..Len(log) : log[i].ev = "fresh" }

Lookups(calls) ==
    [i \in 1..Len(calls) |-> <<calls[i].id, calls[i].maxAge>>]

\* the job-list queries the write step has issued
IssuedByWrite == SubSeq(scheduled', Len(scheduled) + 1, Len(scheduled'))

\* the write step leaves the store and the Reference of the outcome r, and
\* no job is added, changed or removed by the write itself
SameStoreAndRef(r) ==
    /\ store' = r.st.store
    /\ last'.ref = refOf(last'.req, r)
    /\ jobs' = jobs

ReaderUnobservable(r) ==
    /\ SameStoreAndRef(r)
    /\ IssuedByWrite = Lookups(r.st.calls)

\* enabled: log and job-list queries of the write with the check enabled;
\* disabled: the queries of the same write with the check disabled
SkipsOnlyLookups(log, enabled, disabled) ==
    /\ Range(enabled) \subseteq Range(disabled)
    /\ ShortCircuited(log) = {} => enabled = disabled
    /\ \A i \in ShortCircuited(log) :
          /\ \A x \in Range(enabled) : x[1] # log[i].id
          /\ (log[i].id # "ROOT_QUERY"
               /\ Truthy(Get(store[log[i].id], "maxAge")))
              => <<log[i].id, store[log[i].id]["maxAge"]>> \in Range(disabled)

ReaderSkipsScheduling(r) ==
    /\ SameStoreAndRef(r)
    /\ IF cfg.reader
       THEN SkipsOnlyLookups(last'.log, IssuedByWrite, Lookups(r.st.calls))
       ELSE SkipsOnlyLookups(r.st.log, Lookups(r.st.calls), IssuedByWrite)

(* C20, as claimed: every write leaves the same store contents, returns the
   same Reference and leaves the scheduler in the same state, the job-list
   queries it has issued included, whether the reader's isFresh check is
   enabled or disabled. *)
C20_ReaderUnobservable ==
    [][ writes' # writes =>
           ReaderUnobservable(OutcomeIn(OtherReader', last'.req, store)) ]_vars

(* C20, amended: every write leaves the same store contents and returns the
   same Reference whether the reader's isFresh check is enabled or disabled,
   and changes no pending job by itself in either configuration; but a write
   the check cuts short issues no job-list query for the record it skips,
   while the same write with the check disabled queries the job list for
   that record when the record is not the root query and its maxAge is
   truthy. A write that is not cut short issues the same queries in both
   configurations. *)
C20_ReaderSkipsScheduling ==
    [][ writes' # writes =>
           ReaderSkipsScheduling(OutcomeIn(OtherReader', last'.req, store)) ]_vars

\* the second write was cut short at Todo:1, whose maxAge is T1, and issued
\* no job-list query; the first write had issued one
C20_Witness ==
    /\ cfg.reader
    /\ writes = 2
    /\ last.req.known
    /\ Len(last.log) = 1
    /\ last.log[1].ev = "fresh"
    /\ last.log[1].id = "Todo:1"
    /\ last.pre = last.post
    /\ last.ref = makeReference("Todo:1")
    /\ Get(store["Todo:1"], "maxAge") = Num(T1)
    /\ scheduled = << <<"Todo:1", Num(T1)>> >>

----------------------------------------------------------------------------
(* Field-Value-To-Be-Merged markers (lines 244-258, 292-294) *)

\* a FieldValueToBeMerged at any depth of a value
RECURSIVE HasMarker(_)
HasMarker(v) ==
    CASE v.k = "tbm" -> TRUE
      [] v.k = "obj" -> \E key \in DOMAIN v.f : HasMarker(v.f[key])
      [] v.k = "list" -> \E i \in 1..Len(v.l) : HasMarker(v.l[i])
      [] OTHER -> FALSE

\* the typename the result object at a response path carries
TypenameAt(path) ==
    getTypenameFromResult(ValueAt(rootResult(last.req), path))

\* the fields of the last write that were wrapped into a marker
MarkerFields ==
    { i \in FieldEvents :
        hasMergeFunction(TypenameAt(last.log[i].path),
                         Node(last.log[i].node).name) }

\* the field of event i went into the accumulator that event m committed:
\* directly, or inside unidentified inline objects and lists
InAccumulator(i, m) ==
    /\ i < m
    /\ IsPrefix(last.log[m].path, last.log[i].path)
    /\ IF last.log[i].path = last.log[m].path
       THEN last.log[i].id = last.log[m].id /\ last.log[i].ss = last.log[m].ss
       ELSE last.log[i].id = NoId
    /\ \A w \in CallEvents :
          (/\ last.log[w].id # NoId
           /\ IsPrefix(last.log[w].path, last.log[i].path))
          => IsPrefix(last.log[w].path, last.log[m].path)

\* where the field of event i lies in the record event m committed
PlaceIn(i, m) ==
    Append(SubSeq(last.log[i].path, Len(last.log[m].path) + 1,
                  Len(last.log[i].path)),
           last.log[i].store)

\* what the custom merge function of the field of event i returns
MergeFunctionReturn(i) ==
    customMerge(TypenameAt(last.log[i].path), Node(last.log[i].node).name,
                Undefined,
                ValueAt(rootResult(last.req),
                        Append(last.log[i].path, Node(last.log[i].node).key)))

(* C21: no unresolved Field-Value-To-Be-Merged marker is ever committed:
   the store holds no marker at any depth, no store.merge call is given one,
   and every marker created in an entity's accumulator, directly or inside
   nested unidentified inline objects and lists, has been replaced in the
   committed record by the return value of its custom merge function. *)
C21_NoMarkerCommitted ==
    /\ \A id \in DOMAIN store : ~HasMarker(Obj(store[id]))
    /\ \A m \in MergeEvents :
          /\ ~HasMarker(Obj(last.log[m].incoming))
          /\ ~HasMarker(Obj(last.log[m].after))
          /\ \A i \in MarkerFields :
                InAccumulator(i, m)
                => ValueAt(Obj(last.log[m].incoming), PlaceIn(i, m))
                      = MergeFunctionReturn(i)

\* Holder:1 was committed with the tags of its inline Todo objects, one
\* under first and one inside the list items, replaced by what the merge
\* function of Todo.tags returned
C21_Witness ==
    \E m \in MergeEvents :
        /\ last.log[m].id = "Holder:1"
        /\ \E i \in MarkerFields :
              /\ InAccumulator(i, m)
              /\ PlaceIn(i, m) = <<"first", "tags">>
        /\ \E i \in MarkerFields :
              /\ InAccumulator(i, m)
              /\ PlaceIn(i, m) = <<"items", "0", "tags">>
        /\ ValueAt(Obj(last.log[m].incoming), <<"items", "0", "tags">>)
              = List(<<Str("y")>>)
        /\ ValueAt(Obj(store["Holder:1"]), <<"first", "tags">>)
              = List(<<Str("x")>>)

----------------------------------------------------------------------------
(* References and the order of commits (lines 175-199, 335-337) *)

\* the identifiers that had a record when event m committed
StoredBefore(m) ==
    DOMAIN last.pre \cup { last.log[j].id : j \in { k \in MergeEvents : k < m } }

\* the identifiers the last write committed a record for
Committed == { last.log[m].id : m \in MergeEvents }

\* the References the last write placed into the record of event m
PlacedRefs(m) == RefsOf(Obj(last.log[m].incoming))

\* the already-written guard returned a Reference to id before event m,
\* while the walk of id had started and its record was not yet committed
StillInProcess(id, m) ==
    /\ id \notin StoredBefore(m)
    /\ \E w \in CallEvents :
          /\ w < m /\ last.log[w].ev = "walk" /\ last.log[w].id = id
    /\ \E a \in CallEvents :
          /\ a < m /\ last.log[a].ev = "again" /\ last.log[a].id = id

\* the calls for identified objects made inside the call that event m
\* committed, with their fields walked
WalkedInside(m) ==
    { w \in CallEvents :
        /\ w < m
        /\ last.log[w].ev = "walk"
        /\ last.log[w].id # NoId
        /\ IsPrefix(last.log[m].path, last.log[w].path)
        /\ last.log[w].path # last.log[m].path }

\* the commit of the call of event w
CommitOf(w) ==
    { k \in MergeEvents : k > w /\ SameCall(k, w) }

NoDanglingAfterReturn ==
    last.outcome # "error"
    => \A m \in MergeEvents : PlacedRefs(m) \subseteq DOMAIN last.post

(* C22, as claimed: after a write that returns normally every Reference
   placed into a committed record names an identifier with a record in the
   store, and whenever a record is committed every entity it refers to has
   its record already: the nested entity is committed before the entity
   that encloses it. *)
C22_NestedCommittedFirst ==
    /\ NoDanglingAfterReturn
    /\ \A m \in MergeEvents : PlacedRefs(m) \subseteq StoredBefore(m)

(* C22, amended: after a write that returns normally every Reference placed
   into a committed record names an identifier with a record in the store.
   A nested entity whose fields the nested call walked is committed before
   the entity that encloses it.  A Reference the already-written guard
   returned for an entity that is still being processed is committed before
   that entity's record: the record follows later in the same write, or
   never when the write fails, and only such References can be left without
   a record. *)
C22_CommitOrder ==
    /\ NoDanglingAfterReturn
    /\ \A m \in MergeEvents :
          /\ \A id \in PlacedRefs(m) :
                id \in StoredBefore(m) \/ id = last.log[m].id
                   \/ StillInProcess(id, m)
          /\ \A w \in WalkedInside(m) :
                \E k \in CommitOf(w) : k < m
          /\ \A id \in PlacedRefs(m) \ DOMAIN last.post :
                last.outcome = "error" /\ StillInProcess(id, m)

\* Todo:2 was committed holding a Reference to Todo:1, which the guard had
\* returned while Todo:1 was being processed; the record of Todo:1 was
\* committed afterwards and the write returned
C22_Witness ==
    /\ last.outcome = "ref"
    /\ \E m \in MergeEvents :
          /\ last.log[m].id = "Todo:2"
          /\ "Todo:1" \in PlacedRefs(m)
          /\ StillInProcess("Todo:1", m)
          /\ \E k \in MergeEvents : k > m /\ last.log[k].id = "Todo:1"
    /\ "Todo:1" \in DOMAIN last.post

\* the write failed after Todo:2 was committed with a Reference to Todo:1,
\* and Todo:1 has no record
DanglingAfterFailure ==
    /\ last.outcome = "error"
    /\ \E m \in MergeEvents :
          /\ "Todo:1" \in PlacedRefs(m)
          /\ "Todo:1" \notin DOMAIN last.post

----------------------------------------------------------------------------
(* One writeToStore call taken step by step (lines 153-366): the stack of   *)
(* processSelectionSet and processFieldValue calls over a result whose      *)
(* objects may refer back to each other.  Values are not accumulated here:  *)
(* a step is a call, a visit of one selection, or a return.                 *)

\* frames the call stack may hold, and entries a work set may hold
MaxDepth == 10
MaxWorkSet == 10

mainVars == <<cfg, family, store, rootIds, jobs, ops, nextJob, executedJobs,
              now, warnings, writes, scheduled, last>>

\* a field of a result object that holds another object of the result
Ptr(o) == [k |-> "node", o |-> o]

Linked(id, friend, friends) ==
    [__typename |-> Str("Todo"), id |-> Str(id), friend |-> friend,
     friends |-> List(friends)]

\* results: r is the object given to writeToStore
Graphs ==
    [ two  |-> [r |-> [todo |-> Ptr("a")],
                a |-> Linked("1", Ptr("b"), <<>>),
                b |-> Linked("2", Ptr("a"), <<>>)],
      self |-> [r |-> [todo |-> Ptr("a")],
                a |-> Linked("1", Ptr("a"), <<Null, Ptr("a")>>)],
      list |-> [r |-> [todo |-> Ptr("a")],
                a |-> Linked("1", Null, <<Ptr("b"), Null, Ptr("a")>>),
                b |-> Linked("2", Null, <<Ptr("a")>>)],
      tree |-> [r |-> [todo |-> Ptr("a")],
                a |-> Linked("1", Ptr("b"), <<>>),
                b |-> [__typename |-> Str("Todo"), id |-> Str("2")]],
      mixed |-> [r |-> [todo |-> Ptr("a")],
                 a |-> Linked("1", Ptr("c"), <<Ptr("c")>>),
                 c |-> [__typename |-> Str("Other"), id |-> Str("3")]] ]

WalkVariables == [hide |-> TRUE]

\* a processSelectionSet call that has not started (lines 153-163)
CallFrame(obj, selectionSet, dataId) ==
    [kind |-> "call", phase |-> "enter", obj |-> obj, ss |-> selectionSet,
     dataId |-> dataId, typename |-> "", workSet |-> <<>>, i |-> 1,
     items |-> <<>>]

\* line 357: value.map over the items of a list
ListFrame(items, selectionSet) ==
    [kind |-> "list", phase |-> "walk", obj |-> "", ss |-> selectionSet,
     dataId |-> NoId, typename |-> "", workSet |-> <<>>, i |-> 1,
     items |-> items]

Top == walk.stack[Len(walk.stack)]

WalkResult(obj) == Obj(Graphs[walk.graph][obj])

\* lines 168-173
EnteredId(f) == resolveDataId(f.dataId, identify(WalkResult(f.obj)).id)

\* the call on top returns: its caller goes on with the next selection or
\* item, and the call writeToStore made ends the write
Popped(w) ==
    IF Len(w.stack) = 1
    THEN [w EXCEPT !.status = "returned", !.stack = <<>>]
    ELSE [w EXCEPT !.stack =
            [SubSeq(w.stack, 1, Len(w.stack) - 1)
                EXCEPT ![Len(w.stack) - 1].i = @ + 1]]

Pushed(w, frame) == [w EXCEPT !.stack = Append(@, frame)]

Advanced(w) == [w EXCEPT !.stack[Len(w.stack)].i = @ + 1]

Entering ==
    /\ walk.status = "running"
    /\ Top.kind = "call"
    /\ Top.phase = "enter"

\* the selection the forEach of line 226 is at
Visiting ==
    /\ walk.status = "running"
    /\ Top.kind = "call"
    /\ Top.phase = "walk"
    /\ Top.i <= Len(Top.workSet)

Selection == Node(Top.workSet[Top.i])

\* line 231: result[resultFieldKey]
FieldValue == Get(Graphs[walk.graph][Top.obj], Selection.key)

VisitingField ==
    /\ Visiting
    /\ shouldInclude(Selection, WalkVariables)
    /\ Selection.kind = "field"

\* line 183: the pair was written before: the Reference is returned at once
WalkCutOff ==
    /\ Entering
    /\ EnteredId(Top) # NoId
    /\ alreadyWritten(walk.written, EnteredId(Top), Top.ss)
    /\ walk' = [Popped(walk) EXCEPT !.cut = @ + 1]
    /\ UNCHANGED mainVars

\* lines 184-223: the pair is recorded and the work set is created
WalkEnter ==
    /\ Entering
    /\ ~(EnteredId(Top) # NoId
         /\ alreadyWritten(walk.written, EnteredId(Top), Top.ss))
    /\ walk' = [walk EXCEPT
          !.written = IF EnteredId(Top) # NoId
                      THEN @ \cup {<<EnteredId(Top), Top.ss>>} ELSE @,
          !.stack[Len(walk.stack)] =
              [Top EXCEPT !.phase = "walk",
                          !.dataId = EnteredId(Top),
                          !.typename = resolveTypename(store, EnteredId(Top),
                                                       WalkResult(Top.obj)),
                          !.workSet = Selections[Top.ss]]]
    /\ UNCHANGED mainVars

\* line 227: the selection is excluded by a directive
WalkPassOver ==
    /\ Visiting
    /\ ~shouldInclude(Selection, WalkVariables)
    /\ walk' = Advanced(walk)
    /\ UNCHANGED mainVars

\* lines 349-354: a value without selection set, or null
WalkScalar ==
    /\ VisitingField
    /\ FieldValue.k # "undef"
    /\ Selection.sub = "" \/ FieldValue.k \notin {"node", "list"}
    /\ walk' = Advanced(walk)
    /\ UNCHANGED mainVars

\* lines 264-267 not taken: the absent value is passed over
WalkAbsent ==
    /\ VisitingField
    /\ FieldValue.k = "undef"
    /\ ~isMissingFieldError(cfg, Selection)
    /\ walk' = Advanced(walk)
    /\ UNCHANGED mainVars

\* lines 268-274: the error leaves every call on the stack
WalkMissing ==
    /\ VisitingField
    /\ FieldValue.k = "undef"
    /\ isMissingFieldError(cfg, Selection)
    /\ walk' = [walk EXCEPT !.status = "failed", !.stack = <<>>]
    /\ UNCHANGED mainVars

\* lines 360-365: processSelectionSet is called for the object
WalkDescend ==
    /\ VisitingField
    /\ Selection.sub # ""
    /\ FieldValue.k = "node"
    /\ Len(walk.stack) < MaxDepth
    /\ walk' = Pushed(walk, CallFrame(FieldValue.o, Selection.sub, NoId))
    /\ UNCHANGED mainVars

\* lines 356-358
WalkList ==
    /\ VisitingField
    /\ Selection.sub # ""
    /\ FieldValue.k = "list"
    /\ Len(walk.stack) < MaxDepth
    /\ walk' = Pushed(walk, ListFrame(FieldValue.l, Selection.sub))
    /\ UNCHANGED mainVars

\* what line 284 leaves in the work set
Expanded ==
    AddAll(Top.workSet, Selections[getFragmentFromSelection(Selection).sub])

\* lines 276-286
WalkFragment ==
    /\ Visiting
    /\ shouldInclude(Selection, WalkVariables)
    /\ Selection.kind # "field"
    /\ IF fragmentMatches(getFragmentFromSelection(Selection), Top.typename)
       THEN /\ Len(Expanded) <= MaxWorkSet
            /\ walk' = [Advanced(walk) EXCEPT
                  !.stack[Len(walk.stack)].workSet = Expanded,
                  !.readded = IF Expanded = Top.workSet THEN @ + 1 ELSE @]
       ELSE walk' = Advanced(walk)
    /\ UNCHANGED mainVars

ListItem == Top.items[Top.i]

\* line 357, one item
WalkItem ==
    /\ walk.status = "running"
    /\ Top.kind = "list"
    /\ Top.i <= Len(Top.items)
    /\ IF ListItem.k = "node"
       THEN /\ Len(walk.stack) < MaxDepth
            /\ walk' = Pushed(walk, CallFrame(ListItem.o, Top.ss, NoId))
       ELSE IF ListItem.k = "list"
       THEN /\ Len(walk.stack) < MaxDepth
            /\ walk' = Pushed(walk, ListFrame(ListItem.l, Top.ss))
       ELSE walk' = Advanced(walk)
    /\ UNCHANGED mainVars

\* line 357: the mapped list is returned
WalkEndList ==
    /\ walk.status = "running"
    /\ Top.kind = "list"
    /\ Top.i > Len(Top.items)
    /\ walk' = Popped(walk)
    /\ UNCHANGED mainVars

\* lines 289-340: the work set is used up; an identified object is
\* committed, and the call returns
WalkLeave ==
    /\ walk.status = "running"
    /\ Top.kind = "call"
    /\ Top.phase = "walk"
    /\ Top.i > Len(Top.workSet)
    /\ walk' = [Popped(walk) EXCEPT
          !.committed = IF Top.dataId # NoId THEN Append(@, Top.dataId)
                        ELSE @]
    /\ UNCHANGED mainVars

WalkInit ==
    /\ family = "cycle"
    /\ cfg \in Configs(family)
    /\ store = NoFields
    /\ rootIds = NoFields
    /\ jobs = <<>>
    /\ ops = {}
    /\ nextJob = 1
    /\ executedJobs = {}
    /\ now = 0
    /\ warnings = {}
    /\ writes = 0
    /\ scheduled = <<>>
    /\ last = NoWrite
    /\ \E g \in DOMAIN Graphs :
          walk = [NoWalk EXCEPT
                    !.status = "running", !.graph = g,
                    !.stack = <<CallFrame("r", "W0", "ROOT_QUERY")>>]

WalkNext ==
    \/ WalkCutOff
    \/ WalkEnter
    \/ WalkPassOver
    \/ WalkScalar
    \/ WalkAbsent
    \/ WalkMissing
    \/ WalkDescend
    \/ WalkList
    \/ WalkFragment
    \/ WalkItem
    \/ WalkEndList
    \/ WalkLeave

\* the call runs to its end once made: nothing else runs on the thread
WalkSpec == WalkInit /\ [][WalkNext]_vars /\ WF_vars(WalkNext)

\* the write has returned or failed
WalkDone == walk.status \in {"returned", "failed"}

\* the selections the walk of a frame has visited
Visited(f) == SubSeq(f.workSet, 1, f.i - 1)

EachNodeOnce ==
    \A k \in { n \in 1..Len(walk.stack) : walk.stack[n].kind = "call" } :
        \A i \in 1..Len(Visited(walk.stack[k])) :
            \A j \in 1..Len(Visited(walk.stack[k])) :
                Visited(walk.stack[k])[i] = Visited(walk.stack[k])[j] => i = j

(* C23: every writeToStore call returns or fails: the walk of a work set
   visits each selection node at most once, also when fragments spread each
   other in a cycle, and a result in which an identified object leads back
   to itself under the same selection set is cut off by the already-written
   guard. *)
C23_Terminates == []EachNodeOnce /\ <>WalkDone

\* the write of the result 1 -> 2 -> 1 has returned: the guard cut the
\* recursion off, a spread of a fragment already in the work set added
\* nothing, and both objects were committed
C23_Witness ==
    /\ walk.status = "returned"
    /\ walk.graph = "two"
    /\ walk.cut > 0
    /\ walk.readded > 0
    /\ \E i \in 1..Len(walk.committed) : walk.committed[i] = "Todo:1"
    /\ \E i \in 1..Len(walk.committed) : walk.committed[i] = "Todo:2"
    /\ walk.committed[Len(walk.committed)] = "ROOT_QUERY"

====
